---- MODULE Spec2Model ----
(***************************************************************************)
(* django_meme_maker: the Meme model's save / generate_image life cycle    *)
(* and the text-overlay compositing pipeline of Meme.generate_image        *)
(* (src/meme_maker/models.py).                                             *)
(*                                                                         *)
(* Three specifications share this module:                                 *)
(*   Spec        the persistence life cycle of memes (Meme.save)           *)
(*   SpecWrap    the wrap_text helper, one loop iteration per step         *)
(*   SpecRender  one call of generate_image, one overlay / line per step   *)
(***************************************************************************)
EXTENDS Integers, Sequences, FiniteSets, TLC

\* ------------------------------------------------------------------------
\* Bounds of the model
\* ------------------------------------------------------------------------
MaxMemes == 1
MaxFiles == 2

\* ------------------------------------------------------------------------
\* Life cycle: state
\* ------------------------------------------------------------------------
VARIABLES
    tpl_image,   \* MemeTemplate.image of the template, as persisted
    rows,        \* the Meme table: pk -> row or NoRow
    storage,     \* default_storage: set of [path, meme, content] files
    next_path,   \* next unique file name handed out by default_storage.save
    inst,        \* the in-memory Meme instance each request handles
    pc,          \* position of each request inside Meme.save
    fx           \* what the running Meme.save call has written so far

lifeVars == <<tpl_image, rows, storage, next_path, inst, pc, fx>>

\* wrap_text call: its arguments, its position and its return value
VARIABLES w_text, w_font, w_max, w_pc, w_result

wrapVars == <<w_text, w_font, w_max, w_pc, w_result>>

\* one generate_image call: the decoded image, the overlay collection, the
\* position in the overlay / line loops, the layout of the overlay being
\* drawn, the draw.text calls made so far and the value returned
VARIABLES r_width, r_height, r_overlays, r_pc, r_i, r_j, r_lay, r_draws,
          r_result

renderVars == <<r_width, r_height, r_overlays, r_pc, r_i, r_j, r_lay,
                r_draws, r_result>>

\* one request to the meme_editor view: the POST data, the position in the
\* view, the response, and what the requests so far have saved and rendered
VARIABLES e_post, e_pc, e_response, e_memes, e_rendered

editVars == <<e_post, e_pc, e_response, e_memes, e_rendered>>

\* one call of load_font: the FONT_PATH setting, the candidates that can be
\* opened, the position in the loop, the font returned and what was logged
VARIABLES f_custom, f_loadable, f_pc, f_i, f_font, f_log

fontVars == <<f_custom, f_loadable, f_pc, f_i, f_font, f_log>>

\* one call of _apply_watermark: the settings and the files it meets, the
\* position in the method, the file found, what was pasted on the image,
\* what was logged and whether an exception left the method
VARIABLES m_in, m_pc, m_file, m_out, m_log, m_raised

markVars == <<m_in, m_pc, m_file, m_out, m_log, m_raised>>

\* ratings: the persisted rating_sum / rating_count of each rated object,
\* the rating rows, the next primary key of a rating row, the rate request
\* each process is handling, and the stars of the last rating each session
\* sent for each object (0 when it sent none)
VARIABLES rt_items, rt_rows, rt_next_id, rt_req, rt_latest

rateVars == <<rt_items, rt_rows, rt_next_id, rt_req, rt_latest>>

\* links: the link rows, the next primary key of each link model, the last
\* call made for each instance and object, and the last call with its result
VARIABLES lk_links, lk_next_id, lk_last, lk_call

linkVars == <<lk_links, lk_next_id, lk_last, lk_call>>

\* deletion: the stored templates, the stored memes with their template and
\* overlay data, and the last delete with the rows it found
VARIABLES dl_templates, dl_memes, dl_call

deleteVars == <<dl_templates, dl_memes, dl_call>>

\* scoping by the linked object: the flagged instances, and the last view
\* with what its response shows and the instances linked at that time
VARIABLES sc_flagged, sc_view

scopeVars == <<sc_flagged, sc_view>>

\* the last Meme.delete: the pk, the path it took from the instance and
\* whether default_storage.delete raised
VARIABLES rm_last

removeVars == <<rm_last>>

notLife == <<wrapVars, renderVars, editVars, fontVars, markVars, rateVars,
            linkVars, deleteVars,
            scopeVars, removeVars>>
notWrap == <<lifeVars, renderVars, editVars, fontVars, markVars, rateVars,
            linkVars, deleteVars,
            scopeVars, removeVars>>
notRender == <<lifeVars, wrapVars, editVars, fontVars, markVars, rateVars,
              linkVars, deleteVars,
            scopeVars, removeVars>>
notEdit == <<lifeVars, wrapVars, renderVars, fontVars, markVars, rateVars,
            linkVars, deleteVars,
            scopeVars, removeVars>>
notFont == <<lifeVars, wrapVars, renderVars, editVars, markVars, rateVars,
            linkVars, deleteVars,
            scopeVars, removeVars>>
notMark == <<lifeVars, wrapVars, renderVars, editVars, fontVars, rateVars,
            linkVars, deleteVars,
            scopeVars, removeVars>>
notRate == <<lifeVars, wrapVars, renderVars, editVars, fontVars, markVars,
            linkVars, deleteVars,
            scopeVars, removeVars>>
notLifeRemove == <<wrapVars, renderVars, editVars, fontVars, markVars,
                  rateVars, linkVars, deleteVars, scopeVars>>
notLinkDeleteScope == <<lifeVars, wrapVars, renderVars, editVars, fontVars,
                       markVars, rateVars, removeVars>>
notLinkDelete == <<notLinkDeleteScope, scopeVars>>
notLink == <<notLinkDelete, deleteVars>>

\* two concurrent requests
Procs == {"r1", "r2"}
Pks == 1..MaxMemes
NoRow == [exists |-> FALSE, template |-> FALSE, text_overlays |-> "empty",
          generated_image |-> 0]
NoPk == 0
NoFile == 0
NoImage == "NoImage"
\* the None that generate_image returns instead of (filename, content)
None == [ov |-> "None", img |-> "None"]

\* text_overlays values: {} and two distinct non-empty overlay collections
OverlayData == {"empty", "ovA", "ovB"}
\* template image files; Image.open raises on the corrupt one
Images == {"img1", "img2", "corrupt"}

\* Meme.get_overlays: the list under 'overlays', [] when absent
get_overlays(text_overlays) ==
    IF text_overlays = "empty" THEN <<>> ELSE <<text_overlays>>

\* the raster produced from an overlay collection and a source image
Rendering(ov, img) == [ov |-> ov, img |-> img]

NoInstance == [has |-> FALSE, pk |-> NoPk, template |-> FALSE,
               text_overlays |-> "empty", generated_image |-> NoFile,
               src |-> NoImage, result |-> None, saved_path |-> NoFile]

\* fx[p].gen: the running save has changed the persisted generated_image;
\* fx[p].file: it has written a file to storage
NoEffects == [gen |-> FALSE, file |-> FALSE]

\* the locals of Meme.save are gone once it has returned
Returned(i) == [i EXCEPT !.src = NoImage, !.result = None,
                         !.saved_path = NoFile]

Idle(p) == pc[p] = "idle"

FreePks == {k \in Pks : ~rows[k].exists}

\* content of the file stored under a path, None when there is no such file
FileContent(path) ==
    IF \E f \in storage : f.path = path
    THEN (CHOOSE f \in storage : f.path = path).content
    ELSE None

LifeInit ==
    /\ tpl_image = "img1"
    /\ rows = [k \in Pks |-> NoRow]
    /\ storage = {}
    /\ next_path = 1
    /\ inst = [p \in Procs |-> NoInstance]
    /\ pc = [p \in Procs |-> "idle"]
    /\ fx = [p \in Procs |-> NoEffects]

\* ------------------------------------------------------------------------
\* Life cycle: operations
\* ------------------------------------------------------------------------

\* meme_editor POST: meme = Meme(template=template); meme.set_overlays(...)
NewMeme(p, ov) ==
    /\ Idle(p)
    /\ FreePks # {}
    /\ inst' = [inst EXCEPT ![p] = [NoInstance EXCEPT !.has = TRUE,
                                       !.template = TRUE,
                                       !.text_overlays = ov]]
    /\ UNCHANGED <<notLife, tpl_image, rows, storage, next_path, pc, fx>>

\* Meme.objects.get(pk=...): a fresh instance holding the row's fields
GetMeme(p, k) ==
    /\ Idle(p)
    /\ rows[k].exists
    /\ inst' = [inst EXCEPT ![p] = [NoInstance EXCEPT !.has = TRUE,
                   !.pk = k,
                   !.template = rows[k].template,
                   !.text_overlays = rows[k].text_overlays,
                   !.generated_image = rows[k].generated_image]]
    /\ UNCHANGED <<notLife, tpl_image, rows, storage, next_path, pc, fx>>

\* Meme.set_overlays on the in-memory instance
set_overlays(p, ov) ==
    /\ Idle(p)
    /\ inst[p].has
    /\ inst[p].text_overlays # ov
    /\ inst' = [inst EXCEPT ![p].text_overlays = ov]
    /\ UNCHANGED <<notLife, tpl_image, rows, storage, next_path, pc, fx>>

\* the row Model.save writes for an instance: every concrete field
RowOf(i) == [exists |-> TRUE, template |-> i.template,
             text_overlays |-> i.text_overlays,
             generated_image |-> i.generated_image]

\* Meme.save, first part: super().save() and the should_generate test.
\* update_fields = TRUE is the save(update_fields=['flagged', 'flagged_at'])
\* of flag_meme, which writes none of the fields modelled here.
SaveRow(p, update_fields) ==
    /\ Idle(p)
    /\ inst[p].has
    /\ next_path + Cardinality({q \in Procs : ~Idle(q)}) <= MaxFiles
    /\ update_fields => inst[p].pk # NoPk
    /\ LET k == IF inst[p].pk = NoPk THEN CHOOSE n \in FreePks : TRUE
                ELSE inst[p].pk
           old == rows[k]
           new == IF update_fields THEN old ELSE RowOf(inst[p])
           should_generate == /\ get_overlays(inst[p].text_overlays) # <<>>
                              /\ inst[p].template
       IN /\ inst[p].pk = NoPk => FreePks # {}
          /\ rows' = [rows EXCEPT ![k] = new]
          /\ inst' = [inst EXCEPT ![p].pk = k,
                                  ![p].src = IF should_generate
                                             THEN tpl_image ELSE NoImage]
          /\ fx' = [fx EXCEPT ![p] =
                      IF should_generate
                      THEN [gen |-> (old.exists /\ old.generated_image
                                                # new.generated_image),
                            file |-> FALSE]
                      ELSE NoEffects]
          /\ pc' = [pc EXCEPT ![p] = IF should_generate
                                     THEN "generate" ELSE "idle"]
    /\ UNCHANGED <<notLife, tpl_image, storage, next_path>>

\* Meme.generate_image: the whole pipeline runs inside one try block;
\* an undecodable source or any exception in it (fault) yields None.
generate_image(p, fault) ==
    /\ pc[p] = "generate"
    /\ LET ok == ~fault /\ inst[p].src # "corrupt"
           result == IF ok
                     THEN Rendering(inst[p].text_overlays, inst[p].src)
                     ELSE None
       IN /\ inst' = [inst EXCEPT ![p] =
                        IF ok THEN [@ EXCEPT !.result = result]
                        ELSE Returned(@)]
          /\ fx' = [fx EXCEPT ![p] = IF ok THEN @ ELSE NoEffects]
          /\ pc' = [pc EXCEPT ![p] = IF ok THEN "store" ELSE "idle"]
    /\ UNCHANGED <<notLife, tpl_image, rows, storage, next_path>>

\* default_storage.save(upload_path, content): a new, unique file
StoreFile(p) ==
    /\ pc[p] = "store"
    /\ storage' = storage \cup {[path |-> next_path, meme |-> inst[p].pk,
                                 content |-> inst[p].result]}
    /\ next_path' = next_path + 1
    /\ inst' = [inst EXCEPT ![p].saved_path = next_path]
    /\ fx' = [fx EXCEPT ![p].file = TRUE]
    /\ pc' = [pc EXCEPT ![p] = "update"]
    /\ UNCHANGED <<notLife, tpl_image, rows>>

\* Meme.objects.filter(pk=self.pk).update(generated_image=saved_path):
\* the row changes, the in-memory instance does not
UpdateField(p) ==
    /\ pc[p] = "update"
    /\ LET k == inst[p].pk
       IN /\ rows' = IF ~rows[k].exists THEN rows
                     ELSE [rows EXCEPT ![k].generated_image =
                                               inst[p].saved_path]
    /\ inst' = [inst EXCEPT ![p] = Returned(@)]
    /\ fx' = [fx EXCEPT ![p] = NoEffects]
    /\ pc' = [pc EXCEPT ![p] = "idle"]
    /\ UNCHANGED <<notLife, tpl_image, storage, next_path>>

\* the template's image is replaced (MemeTemplateAdmin change form)
ReplaceTemplateImage(img) ==
    /\ img # tpl_image
    /\ tpl_image' = img
    /\ UNCHANGED <<notLife, rows, storage, next_path, inst, pc, fx>>

LifeNext ==
    \/ \E p \in Procs, ov \in OverlayData : NewMeme(p, ov)
    \/ \E p \in Procs, k \in Pks : GetMeme(p, k)
    \/ \E p \in Procs, ov \in OverlayData : set_overlays(p, ov)
    \/ \E p \in Procs, uf \in BOOLEAN : SaveRow(p, uf)
    \/ \E p \in Procs, fault \in BOOLEAN : generate_image(p, fault)
    \/ \E p \in Procs : StoreFile(p)
    \/ \E p \in Procs : UpdateField(p)
    \/ \E img \in Images : ReplaceTemplateImage(img)

\* ------------------------------------------------------------------------
\* Life cycle: properties
\* ------------------------------------------------------------------------

\* the step in which generate_image returns None and Meme.save returns
FailedRender(p) == pc[p] = "generate" /\ pc'[p] = "idle"

\* C2: when generate_image returns None, the Meme.save call that invoked it
\* has written no file to storage and has not changed the persisted
\* generated_image, and the persisted overlay data is left as saved.
C2_FailedSaveLeavesImage ==
    [][\A p \in Procs :
          FailedRender(p) =>
              /\ inst'[p].result = None
              /\ ~fx[p].file /\ storage' = storage
              /\ ~fx[p].gen
              /\ rows'[inst[p].pk].exists
              /\ rows'[inst[p].pk].text_overlays
                     = rows[inst[p].pk].text_overlays]_lifeVars

\* C3: whenever no save is in progress, a persisted generated_image is the
\* rendering of the persisted overlays on the template's current image.
C3_GeneratedImageIsCurrent ==
    (\A p \in Procs : Idle(p)) =>
        \A k \in Pks :
            (rows[k].exists /\ rows[k].generated_image # NoFile) =>
                FileContent(rows[k].generated_image)
                    = Rendering(rows[k].text_overlays, tpl_image)


\* ------------------------------------------------------------------------
\* Text: strings are sequences of characters
\* ------------------------------------------------------------------------
MaxLen == 5

Chars == {"a", "W", " "}

IsSpace(c) == c = " "

Texts == UNION {[1..n -> Chars] : n \in 0..MaxLen}

\* str.upper()
UpperChar(c) == IF c = "a" THEN "A" ELSE c

upper(text) == [i \in 1..Len(text) |-> UpperChar(text[i])]

\* str.split(): the maximal runs of non-whitespace characters, in order
RECURSIVE SplitFrom(_, _, _)
SplitFrom(text, i, word) ==
    IF i > Len(text)
    THEN IF word = <<>> THEN <<>> ELSE <<word>>
    ELSE IF IsSpace(text[i])
         THEN (IF word = <<>> THEN <<>> ELSE <<word>>)
                  \o SplitFrom(text, i + 1, <<>>)
         ELSE SplitFrom(text, i + 1, Append(word, text[i]))

split(text) == SplitFrom(text, 1, <<>>)

\* ' '.join(words)
RECURSIVE join(_)
join(words) ==
    IF words = <<>> THEN <<>>
    ELSE IF Len(words) = 1 THEN words[1]
    ELSE words[1] \o <<" ">> \o join(Tail(words))

\* advance width of one glyph of the font at a pixel size
CharWidth(c, size) ==
    IF IsSpace(c) THEN size \div 4
    ELSE IF c = "a" THEN size \div 2
    ELSE size

\* bbox[2] - bbox[0] of draw.textbbox((0, 0), text, font=font)
RECURSIVE TextWidth(_, _)
TextWidth(text, font) ==
    IF text = <<>> THEN 0
    ELSE CharWidth(Head(text), font.size) + TextWidth(Tail(text), font)

\* ------------------------------------------------------------------------
\* wrap_text
\* ------------------------------------------------------------------------

\* WrapWord losing a word that does not fit on a line of its own
WrapWord_dropsWide(st, word, font, max_width) ==
    LET test_line == join(Append(st.current_line, word))
        test_width == TextWidth(test_line, font)
    IN IF test_width <= max_width
       THEN [st EXCEPT !.current_line = Append(@, word)]
       ELSE [lines |-> IF st.current_line # <<>>
                       THEN Append(st.lines, join(st.current_line))
                       ELSE st.lines,
             current_line |-> IF TextWidth(word, font) > max_width
                              THEN <<>> ELSE <<word>>]

\* WrapWord closing the line already when the width equals max_width
WrapWord_strict(st, word, font, max_width) ==
    LET test_line == join(Append(st.current_line, word))
        test_width == TextWidth(test_line, font)
    IN IF test_width < max_width
       THEN [st EXCEPT !.current_line = Append(@, word)]
       ELSE [lines |-> IF st.current_line # <<>>
                       THEN Append(st.lines, join(st.current_line))
                       ELSE st.lines,
             current_line |-> <<word>>]

\* body of the for loop over the words: st = [lines, current_line]
WrapWord(st, word, font, max_width) ==
    LET test_line == join(Append(st.current_line, word))
        test_width == TextWidth(test_line, font)
    IN IF test_width <= max_width
       THEN [st EXCEPT !.current_line = Append(@, word)]
       ELSE [lines |-> IF st.current_line # <<>>
                       THEN Append(st.lines, join(st.current_line))
                       ELSE st.lines,
             current_line |-> <<word>>]

RECURSIVE WrapLoop(_, _, _, _)
WrapLoop(st, words, font, max_width) ==
    IF words = <<>> THEN st
    ELSE WrapLoop(WrapWord(st, Head(words), font, max_width),
                  Tail(words), font, max_width)

\* wrap_text without its two [text] fallbacks
wrap_text_noFallback(text, font, max_width) ==
    LET st == WrapLoop([lines |-> <<>>, current_line |-> <<>>],
                       split(text), font, max_width)
    IN IF st.current_line # <<>>
       THEN Append(st.lines, join(st.current_line))
       ELSE st.lines

wrap_text(text, font, max_width) ==
    LET words == split(text)
    IN IF words = <<>> THEN <<text>>
       ELSE LET st == WrapLoop([lines |-> <<>>, current_line |-> <<>>],
                               words, font, max_width)
                lines == IF st.current_line # <<>>
                         THEN Append(st.lines, join(st.current_line))
                         ELSE st.lines
            IN IF lines # <<>> THEN lines ELSE <<text>>

\* max_text_width = int(width * 0.9)
MaxTextWidth(width) == (width * 9) \div 10

\* image widths and font sizes the wrap_text calls are explored with
WrapWidths == {10, 23, 32, 50}
WrapSizes == {16, 24}

WrapIdle ==
    /\ w_text = <<>>
    /\ w_font = [size |-> 16]
    /\ w_max = 0
    /\ w_pc = "idle"
    /\ w_result = <<>>

WrapInit ==
    /\ w_text \in Texts
    /\ w_font \in [size : WrapSizes]
    /\ w_max \in {MaxTextWidth(w) : w \in WrapWidths}
    /\ w_pc = "call"
    /\ w_result = <<>>

\* lines = wrap_text(text, font, max_text_width)
WrapCall ==
    /\ w_pc = "call"
    /\ w_result' = wrap_text(w_text, w_font, w_max)
    /\ w_pc' = "done"
    /\ UNCHANGED <<notWrap, w_text, w_font, w_max>>

WrapNext == WrapCall

\* ------------------------------------------------------------------------
\* wrap_text: properties
\* ------------------------------------------------------------------------
RECURSIVE WordsOfLines(_)
WordsOfLines(lines) ==
    IF lines = <<>> THEN <<>>
    ELSE split(Head(lines)) \o WordsOfLines(Tail(lines))

Wrapped == w_pc = "done"

\* C4: for a text with at least one word, the words of the returned lines,
\* in line order, are exactly the words of the text, and a word wider than
\* max_width is alone on its line.
C4_WrapKeepsWords ==
    (Wrapped /\ split(w_text) # <<>>) =>
        /\ WordsOfLines(w_result) = split(w_text)
        /\ \A i \in 1..Len(w_result) :
               \A k \in 1..Len(split(w_result[i])) :
                   TextWidth(split(w_result[i])[k], w_font) > w_max
                       => w_result[i] = split(w_result[i])[k]

C4_Witness ==
    /\ Wrapped
    /\ Len(split(w_text)) >= 3
    /\ Len(w_result) >= 2
    /\ \E i \in 1..Len(w_result) : TextWidth(w_result[i], w_font) > w_max

\* C5: every returned line of more than one word fits max_width, and a
\* line is closed only when the next word would not fit on it.
C5_GreedyWrap ==
    (Wrapped /\ split(w_text) # <<>>) =>
        /\ \A i \in 1..Len(w_result) :
               Len(split(w_result[i])) > 1
                   => TextWidth(w_result[i], w_font) <= w_max
        /\ \A i \in 1..(Len(w_result) - 1) :
               TextWidth(w_result[i] \o <<" ">> \o split(w_result[i + 1])[1],
                         w_font) > w_max

C5_Witness ==
    /\ Wrapped
    /\ Len(w_result) >= 2
    /\ \E i \in 1..Len(w_result) :
           /\ Len(split(w_result[i])) > 1
           /\ TextWidth(w_result[i], w_font) = w_max

\* C6: wrap_text returns at least one line, and for a text without words
\* the one-element list holding the text itself.
C6_WrapNeverEmpty ==
    Wrapped =>
        /\ Len(w_result) >= 1
        /\ split(w_text) = <<>> => w_result = <<w_text>>

C6_Witness ==
    /\ Wrapped
    /\ w_text = <<" ", " ">>
    /\ w_result = <<w_text>>

\* ------------------------------------------------------------------------
\* generate_image: arithmetic
\* ------------------------------------------------------------------------
Max(a, b) == IF a >= b THEN a ELSE b

\* font_size is absent from the overlay or None
Null == -1

DefaultFontSize == 48
MinFontSize == 16
MinStrokeWidth == 2
\* base_width = 800.0 = 2^5 * 25
BaseWidth == 800

\* largest power of two <= n, for n >= 1
RECURSIVE Pow2Floor(_)
Pow2Floor(n) == IF n < 2 THEN 1 ELSE 2 * Pow2Floor(n \div 2)

RECURSIVE Log2(_)
Log2(p) == IF p < 2 THEN 0 ELSE 1 + Log2(p \div 2)

RECURSIVE Pow2Mod25(_)
Pow2Mod25(s) == IF s = 0 THEN 1 ELSE (2 * Pow2Mod25(s - 1)) % 25

\* 2^(b+10) where 2^b <= width / 800 < 2^(b+1): the binade of scale_factor
RECURSIVE BinadeFrom(_, _)
BinadeFrom(width, p) ==
    IF 2 * p * BaseWidth <= width * 1024 THEN BinadeFrom(width, 2 * p) ELSE p

ScaleBinade(width) == BinadeFrom(width, 1)

\* int(user_font_size * scale_factor) with scale_factor = width / 800.0,
\* both operations in IEEE double precision, for positive arguments.
\* The quotient width / 800.0 is exact when 25 divides width; otherwise its
\* 53-bit significand is width * 2^s / 25 rounded to nearest, and r below
\* is the remainder that rounding drops (r <= 12) or fills up (r >= 13).
\* The product can fall below an integer n only when n is the exact value
\* and the quotient was rounded down by more than half a unit in the last
\* place of n; truncation then yields n - 1.
ScaledSize(user_font_size, width) ==
    LET exact == (user_font_size * width) \div BaseWidth
        pb == ScaleBinade(width)
        s == 57 - Log2(pb)
        r == (width * Pow2Mod25(s)) % 25
        k == IF Pow2Floor(exact) = exact THEN 4 ELSE 2
    IN IF (user_font_size * width) % BaseWidth # 0 THEN exact
       ELSE IF width % 25 = 0 THEN exact
       ELSE IF r >= 13 THEN exact
       ELSE IF k * user_font_size * r * pb > 25 * 1024 * Pow2Floor(exact)
            THEN exact - 1
            ELSE exact

\* user_font_size = overlay.get('font_size') or 48
UserFontSize(overlay) ==
    IF overlay.font_size = Null \/ overlay.font_size = 0
    THEN DefaultFontSize ELSE overlay.font_size

\* FontSize without the floor of 16
FontSize_noFloor(overlay, width) ==
    ScaledSize(UserFontSize(overlay), width)

\* font_size = max(16, int(user_font_size * scale_factor))
FontSize(overlay, width) ==
    Max(MinFontSize, ScaledSize(UserFontSize(overlay), width))

\* LineHeight rounding up instead of truncating
LineHeight_ceil(font_size) == (font_size * 12 + 9) \div 10

\* line_height = int(font_size * 1.2)
LineHeight(font_size) == (font_size * 12) \div 10

\* Margin rounding up instead of truncating
Margin_ceil(height) == (height * 3 + 99) \div 100

\* int(height * 0.03)
Margin(height) == (height * 3) \div 100

\* start_y of the text block
StartY(position, y, height, total_text_height) ==
    IF position = "top" THEN Margin(height)
    ELSE IF position = "bottom"
         THEN height - total_text_height - Margin(height)
         ELSE (height * y) \div 100 - total_text_height \div 2

\* LineX anchoring a custom line by its left edge instead of its centre
LineX_leftAnchored(position, x, width, line_width) ==
    IF position \in {"top", "bottom"}
    THEN (width - line_width) \div 2
    ELSE (width * x) \div 100

\* x of one line
LineX(position, x, width, line_width) ==
    IF position \in {"top", "bottom"}
    THEN (width - line_width) \div 2
    ELSE (width * x) \div 100 - line_width \div 2

\* stroke_width = max(2, int(font_size / 16))
StrokeWidth(font_size) == Max(MinStrokeWidth, font_size \div 16)

\* the (dx, dy) of the two nested range(-stroke_width, stroke_width + 1)
\* loops, in loop order
LoopOffsets(stroke_width) ==
    LET n == 2 * stroke_width + 1
    IN [k \in 1..(n * n) |->
           <<((k - 1) \div n) - stroke_width, ((k - 1) % n) - stroke_width>>]

\* InDisk letting every offset of the square through
InDisk_square(o, stroke_width) == TRUE

\* the offsets that pass the test dx*dx + dy*dy <= stroke_width*stroke_width
InDisk(o, stroke_width) ==
    o[1] * o[1] + o[2] * o[2] <= stroke_width * stroke_width

StrokeOffsets(stroke_width) ==
    SelectSeq(LoopOffsets(stroke_width), LAMBDA o : InDisk(o, stroke_width))

\* load_font(size): the face the text is measured and drawn with
load_font(size) == [size |-> size]

StrokeColor == "#000000"
TextColor == "#FFFFFF"

\* ------------------------------------------------------------------------
\* generate_image: inputs explored
\* ------------------------------------------------------------------------
MaxOverlays == 2

Widths == {116, 464, 700, 800}
Heights == {50, 90, 600}

RenderTexts == {<<>>,
                <<"a">>,
                <<"a", " ", "W">>,
                <<" ", " ">>,
                <<"W", "W", " ", "W", "W", " ", "W">>,
                <<"W", "W", "W", "W", "W", " ", "a">>}

FontSizes == {Null, 0, 12, 32, 50, 160}

\* position with the x / y percentages; overlay.get('x', 50) and
\* overlay.get('y', 50) give 50 when the overlay has no x / y
Placements == {[position |-> "top", x |-> 50, y |-> 50],
               [position |-> "bottom", x |-> 50, y |-> 50],
               [position |-> "custom", x |-> 50, y |-> 50],
               [position |-> "custom", x |-> 51, y |-> 51],
               [position |-> "custom", x |-> 100, y |-> 0]}

Overlay(t, pl, f, u) ==
    [text |-> t, position |-> pl.position, x |-> pl.x, y |-> pl.y,
     font_size |-> f, uppercase |-> u]

OverlayPool ==
    {Overlay(t, pl, f, u) : t \in RenderTexts, pl \in Placements,
                            f \in FontSizes, u \in BOOLEAN}

\* overlays that collections of more than one overlay are built from
SmallPool ==
    {Overlay(<<"a", " ", "W">>, [position |-> "top", x |-> 50, y |-> 50],
             Null, TRUE),
     Overlay(<<>>, [position |-> "bottom", x |-> 50, y |-> 50], 32, TRUE),
     Overlay(<<"W", " ", "a">>, [position |-> "bottom", x |-> 50, y |-> 50],
             12, FALSE),
     Overlay(<<"W">>, [position |-> "custom", x |-> 51, y |-> 51],
             50, FALSE)}

Collections ==
    {<<>>} \cup {<<o>> : o \in OverlayPool}
           \cup UNION {[1..n -> SmallPool] : n \in 2..MaxOverlays}

\* ------------------------------------------------------------------------
\* generate_image: state machine
\* ------------------------------------------------------------------------
NoLayout == [ov |-> 0, text |-> <<>>, font_size |-> 0, max_text_width |-> 0,
             lines |-> <<>>, line_height |-> 0, total_text_height |-> 0,
             position |-> "top", start_y |-> 0, stroke_width |-> 0]

RenderIdle ==
    /\ r_width = 0
    /\ r_height = 0
    /\ r_overlays = <<>>
    /\ r_pc = "done"
    /\ r_i = 1
    /\ r_j = 1
    /\ r_lay = NoLayout
    /\ r_draws = <<>>
    /\ r_result = "None"

RenderInit ==
    /\ r_width \in Widths
    /\ r_height \in Heights
    /\ r_overlays \in Collections
    /\ r_pc = "open"
    /\ r_i = 1
    /\ r_j = 1
    /\ r_lay = NoLayout
    /\ r_draws = <<>>
    /\ r_result = "pending"

\* except Exception: ... return None (the working image is dropped)
ReturnNone ==
    /\ r_result' = "None"
    /\ r_pc' = "done"
    /\ r_draws' = <<>>
    /\ UNCHANGED <<notRender, r_width, r_height, r_overlays, r_i, r_j, r_lay>>

\* img = Image.open(source_image); img.convert('RGBA'); width, height
RenderOpen(decodable) ==
    /\ r_pc = "open"
    /\ IF decodable
       THEN /\ r_pc' = "overlay"
            /\ UNCHANGED <<notRender, r_width, r_height, r_overlays, r_i,
                           r_j, r_lay, r_draws, r_result>>
       ELSE ReturnNone

\* the layout of one overlay, up to stroke_width
Layout(i, overlay, width, height) ==
    LET text == IF overlay.uppercase THEN upper(overlay.text)
                ELSE overlay.text
        font_size == FontSize(overlay, width)
        font == load_font(font_size)
        max_text_width == MaxTextWidth(width)
        lines == wrap_text(text, font, max_text_width)
        line_height == LineHeight(font_size)
        total_text_height == line_height * Len(lines)
    IN [ov |-> i, text |-> text, font_size |-> font_size,
        max_text_width |-> max_text_width, lines |-> lines,
        line_height |-> line_height,
        total_text_height |-> total_text_height,
        position |-> overlay.position,
        start_y |-> StartY(overlay.position, overlay.y, height,
                           total_text_height),
        stroke_width |-> StrokeWidth(font_size)]

\* SkipOverlay laying the empty overlay out instead of passing over it
SkipOverlay_laysOut ==
    /\ r_pc = "overlay"
    /\ r_i <= Len(r_overlays)
    /\ r_overlays[r_i].text = <<>>
    /\ r_lay' = Layout(r_i, r_overlays[r_i], r_width, r_height)
    /\ r_j' = 1
    /\ r_pc' = "line"
    /\ UNCHANGED <<notRender, r_width, r_height, r_overlays, r_i, r_draws,
                   r_result>>

\* for overlay in overlays: if not text: continue
SkipOverlay ==
    /\ r_pc = "overlay"
    /\ r_i <= Len(r_overlays)
    /\ r_overlays[r_i].text = <<>>
    /\ r_i' = r_i + 1
    /\ UNCHANGED <<notRender, r_width, r_height, r_overlays, r_pc, r_j,
                   r_lay, r_draws, r_result>>

LayoutOverlay ==
    /\ r_pc = "overlay"
    /\ r_i <= Len(r_overlays)
    /\ r_overlays[r_i].text # <<>>
    /\ r_lay' = Layout(r_i, r_overlays[r_i], r_width, r_height)
    /\ r_j' = 1
    /\ r_pc' = "line"
    /\ UNCHANGED <<notRender, r_width, r_height, r_overlays, r_i, r_draws,
                   r_result>>

\* LineDraws painting the fill first and the stroke passes over it
LineDraws_fillFirst(lay, overlay, j, width) ==
    LET line == lay.lines[j]
        line_width == TextWidth(line, load_font(lay.font_size))
        x == LineX(lay.position, overlay.x, width, line_width)
        y == lay.start_y + (j - 1) * lay.line_height
        offs == StrokeOffsets(lay.stroke_width)
        call(xy, pass, fill) ==
            [ov |-> lay.ov, line |-> j, xy |-> xy, text |-> line,
             pass |-> pass, fill |-> fill, font_size |-> lay.font_size]
    IN <<call(<<x, y>>, "fill", TextColor)>>
       \o [k \in 1..Len(offs) |->
              call(<<x + offs[k][1], y + offs[k][2]>>, "stroke", StrokeColor)]

\* the draw.text calls of one line: the stroke passes, then the fill
LineDraws(lay, overlay, j, width) ==
    LET line == lay.lines[j]
        line_width == TextWidth(line, load_font(lay.font_size))
        x == LineX(lay.position, overlay.x, width, line_width)
        y == lay.start_y + (j - 1) * lay.line_height
        offs == StrokeOffsets(lay.stroke_width)
        call(xy, pass, fill) ==
            [ov |-> lay.ov, line |-> j, xy |-> xy, text |-> line,
             pass |-> pass, fill |-> fill, font_size |-> lay.font_size]
    IN [k \in 1..Len(offs) |->
           call(<<x + offs[k][1], y + offs[k][2]>>, "stroke", StrokeColor)]
       \o <<call(<<x, y>>, "fill", TextColor)>>

\* for i, line in enumerate(lines): one iteration
DrawLine ==
    /\ r_pc = "line"
    /\ r_j <= Len(r_lay.lines)
    /\ r_draws' = r_draws \o LineDraws(r_lay, r_overlays[r_i], r_j, r_width)
    /\ IF r_j < Len(r_lay.lines)
       THEN r_j' = r_j + 1 /\ UNCHANGED <<r_pc, r_i>>
       ELSE r_j' = 1 /\ r_pc' = "overlay" /\ r_i' = r_i + 1
    /\ UNCHANGED <<notRender, r_width, r_height, r_overlays, r_lay,
                   r_result>>

\* after the overlay loop: watermark, flatten, encode, return the file
RenderFinish ==
    /\ r_pc = "overlay"
    /\ r_i > Len(r_overlays)
    /\ r_result' = "file"
    /\ r_pc' = "done"
    /\ UNCHANGED <<notRender, r_width, r_height, r_overlays, r_i, r_j,
                   r_lay, r_draws>>

\* any exception raised inside the try block
RenderRaise ==
    /\ r_pc \in {"overlay", "line"}
    /\ ReturnNone

RenderNext ==
    \/ \E decodable \in BOOLEAN : RenderOpen(decodable)
    \/ SkipOverlay
    \/ LayoutOverlay
    \/ DrawLine
    \/ RenderFinish
    \/ RenderRaise


\* ------------------------------------------------------------------------
\* generate_image: properties
\* ------------------------------------------------------------------------

\* n / d rounded to the nearest integer, halves to even (Python's round)
RoundDiv(n, d) ==
    LET q == n \div d
        rem == n % d
    IN IF 2 * rem > d THEN q + 1
       ELSE IF 2 * rem < d THEN q
       ELSE IF q % 2 = 0 THEN q ELSE q + 1

Calls == 1..Len(r_draws)
Fills == {k \in Calls : r_draws[k].pass = "fill"}
\* the stroke passes of the line whose fill pass is call f
StrokesOf(f) ==
    {k \in Calls : /\ r_draws[k].pass = "stroke"
                   /\ r_draws[k].ov = r_draws[f].ov
                   /\ r_draws[k].line = r_draws[f].line}
OverlayOf(k) == r_overlays[r_draws[k].ov]
\* an overlay has been laid out; r_lay is the layout of overlay r_lay.ov
LaidOut == r_lay.ov # 0
\* the fill passes of the overlay laid out last
FillsOfLayout == {k \in Fills : r_draws[k].ov = r_lay.ov}

\* the requested size F for an overlay with font_size f: 48 when absent,
\* None or 0
Requested(f) == IF f \in {Null, 0} THEN 48 ELSE f

\* C1 (as amended): every overlay is drawn at max(16, int(F * (W / 800.0))).
\* With n = floor(F * W / 800) that is max(16, n), except that the double
\* precision product may truncate to n - 1 when F * W is a multiple of 800
\* and W is not a multiple of 25.
C1_FontSizeTruncated ==
    \A k \in Calls :
        LET F == Requested(OverlayOf(k).font_size)
            n == (F * r_width) \div 800
            size == r_draws[k].font_size
        IN /\ size \in {Max(16, n), Max(16, n - 1)}
           /\ ((F * r_width) % 800 # 0 \/ r_width % 25 = 0)
                  => size = Max(16, n)

\* C1 as claimed: effective font size max(16, round(F * W / 800)), F = 48
\* when font_size is absent or null.
C1_FontSizeRounded ==
    \A k \in Calls :
        LET f == OverlayOf(k).font_size
            F == IF f = Null THEN 48 ELSE f
        IN r_draws[k].font_size = Max(16, RoundDiv(F * r_width, 800))

C1_Witness ==
    /\ r_result = "file"
    /\ r_width = 700
    /\ \E k \in Fills : /\ OverlayOf(k).font_size = Null
                        /\ r_draws[k].font_size = 42
    /\ \E k \in Fills : /\ OverlayOf(k).font_size = 50
                        /\ r_draws[k].font_size = 43

\* C7 (as amended): a 'top' block starts at y = floor(0.03 * H); a 'bottom'
\* block starts at H - block_height - floor(0.03 * H), its bottom edge
\* floor(0.03 * H) above the image bottom.
C7_MarginTruncated ==
    LaidOut =>
        LET o == r_overlays[r_lay.ov]
            m == (3 * r_height) \div 100
            first == {k \in FillsOfLayout : r_draws[k].line = 1}
        IN /\ o.position = "top" =>
                 /\ r_lay.start_y = m
                 /\ \A k \in first : r_draws[k].xy[2] = m
           /\ o.position = "bottom" =>
                 /\ r_lay.start_y = r_height - r_lay.total_text_height - m
                 /\ r_lay.start_y + r_lay.total_text_height = r_height - m
                 /\ \A k \in first : r_draws[k].xy[2] = r_lay.start_y

\* C7 as claimed: the margin is round(0.03 * H).
C7_MarginRounded ==
    LaidOut =>
        LET o == r_overlays[r_lay.ov]
            m == RoundDiv(3 * r_height, 100)
        IN /\ o.position = "top" => r_lay.start_y = m
           /\ o.position = "bottom" =>
                 r_lay.start_y = r_height - r_lay.total_text_height - m

C7_Witness ==
    /\ r_result = "file"
    /\ r_height = 50
    /\ \E k \in Fills : /\ OverlayOf(k).position = "top"
                        /\ r_draws[k].xy[2] = 1
    /\ LaidOut
    /\ r_overlays[r_lay.ov].position = "bottom"
    /\ r_lay.start_y = 50 - r_lay.total_text_height - 1
    /\ FillsOfLayout # {}

\* C8 (as amended): line height is floor(font_size * 1.2), the block height
\* is line_height * number of lines, and line i (0-based) is drawn at
\* y = start_y + i * line_height.
C8_LineHeightTruncated ==
    LaidOut =>
        /\ r_lay.line_height = (r_lay.font_size * 12) \div 10
        /\ r_lay.total_text_height = r_lay.line_height * Len(r_lay.lines)
        /\ \A k \in FillsOfLayout :
               r_draws[k].xy[2] = r_lay.start_y + (r_draws[k].line - 1)
                                     * ((r_draws[k].font_size * 12) \div 10)

\* C8 as claimed: line height is round(font_size * 1.2).
C8_LineHeightRounded ==
    LaidOut =>
        /\ r_lay.line_height = RoundDiv(r_lay.font_size * 12, 10)
        /\ r_lay.total_text_height = r_lay.line_height * Len(r_lay.lines)
        /\ \A k \in FillsOfLayout :
               r_draws[k].xy[2] = r_lay.start_y + (r_draws[k].line - 1)
                                     * r_lay.line_height

C8_Witness ==
    /\ r_result = "file"
    /\ LaidOut
    /\ r_lay.font_size = 23
    /\ r_lay.line_height = 27
    /\ \E k \in FillsOfLayout :
           r_draws[k].line = 2 /\ r_draws[k].xy[2] = r_lay.start_y + 27

\* width of a drawn line, measured as generate_image measures it
DrawnWidth(k) == TextWidth(r_draws[k].text, [size |-> r_draws[k].font_size])

\* C9 (as amended): a 'custom' block starts at floor(H * y / 100) -
\* block_height // 2 and its lines at floor(W * x / 100) - line_width // 2;
\* 'top' and 'bottom' lines start at (W - line_width) // 2.
C9_PlacementTruncated ==
    /\ \A k \in Fills :
           LET o == OverlayOf(k)
           IN r_draws[k].xy[1] =
                  IF o.position = "custom"
                  THEN (r_width * o.x) \div 100 - DrawnWidth(k) \div 2
                  ELSE (r_width - DrawnWidth(k)) \div 2
    /\ (LaidOut /\ r_overlays[r_lay.ov].position = "custom") =>
           r_lay.start_y = (r_height * r_overlays[r_lay.ov].y) \div 100
                             - r_lay.total_text_height \div 2

\* C9 as claimed: the custom point is round(W * x / 100), round(H * y / 100).
C9_PlacementRounded ==
    /\ \A k \in Fills :
           LET o == OverlayOf(k)
           IN r_draws[k].xy[1] =
                  IF o.position = "custom"
                  THEN RoundDiv(r_width * o.x, 100) - DrawnWidth(k) \div 2
                  ELSE (r_width - DrawnWidth(k)) \div 2
    /\ (LaidOut /\ r_overlays[r_lay.ov].position = "custom") =>
           r_lay.start_y = RoundDiv(r_height * r_overlays[r_lay.ov].y, 100)
                             - r_lay.total_text_height \div 2

C9_Witness ==
    /\ r_result = "file"
    /\ r_width = 464
    /\ r_height = 50
    /\ LaidOut
    /\ r_overlays[r_lay.ov].position = "custom"
    /\ r_overlays[r_lay.ov].x = 51
    /\ r_lay.start_y = 25 - r_lay.total_text_height \div 2
    /\ \E k \in FillsOfLayout :
           r_draws[k].xy[1] = 236 - DrawnWidth(k) \div 2

\* the integer offsets within the disk of radius r
Disk(r) ==
    {o \in (-r..r) \X (-r..r) : o[1] * o[1] + o[2] * o[2] <= r * r}

\* the offsets the stroke passes of a line were drawn at
StrokeOffsetsOf(f) ==
    {<<r_draws[k].xy[1] - r_draws[f].xy[1],
       r_draws[k].xy[2] - r_draws[f].xy[2]>> : k \in StrokesOf(f)}

\* C10 (as amended): the stroke of a line is drawn once at each integer
\* offset of the disk of radius r = max(2, floor(font_size / 16)) and
\* nowhere else.
C10_StrokeDiskTruncated ==
    \A f \in Fills :
        LET r == Max(2, r_draws[f].font_size \div 16)
        IN /\ StrokeOffsetsOf(f) = Disk(r)
           /\ Cardinality(StrokesOf(f)) = Cardinality(Disk(r))

\* C10 as claimed: r = max(2, round(font_size / 16)).
C10_StrokeDiskRounded ==
    \A f \in Fills :
        StrokeOffsetsOf(f) = Disk(Max(2, RoundDiv(r_draws[f].font_size, 16)))

C10_Witness ==
    /\ r_result = "file"
    /\ \E f \in Fills : /\ r_draws[f].font_size = 160
                        /\ Cardinality(StrokesOf(f)) = 317
                        /\ <<-10, 0>> \in StrokeOffsetsOf(f)
                        /\ <<-8, 6>> \in StrokeOffsetsOf(f)
                        /\ <<8, 7>> \notin StrokeOffsetsOf(f)

\* ------------------------------------------------------------------------
\* generate_image: draw order and skipped overlays
\* ------------------------------------------------------------------------

\* the fill passes of line l of overlay o
FillsOfLine(o, l) ==
    {k \in Fills : r_draws[k].ov = o /\ r_draws[k].line = l}
\* the lines that have been drawn
DrawnLines == {<<r_draws[k].ov, r_draws[k].line>> : k \in Calls}

\* C11: the draw calls are issued overlay by overlay in collection order
\* (each call belongs to the overlay of the call before it or to a later
\* one), line by line within an overlay, and within a line every stroke call
\* comes before the one fill call of that line, which is the last call of
\* the line and is made at the point (x, y) the strokes are offset from.
C11_DrawOrder ==
    /\ \A k \in Calls :
           k < Len(r_draws) =>
               \/ r_draws[k].ov < r_draws[k + 1].ov
               \/ /\ r_draws[k].ov = r_draws[k + 1].ov
                  /\ r_draws[k].line <= r_draws[k + 1].line
    /\ \A d \in DrawnLines :
           /\ Cardinality(FillsOfLine(d[1], d[2])) = 1
           /\ \A f \in FillsOfLine(d[1], d[2]) :
                  /\ \A k \in StrokesOf(f) : k < f
                  /\ <<0, 0>> \in StrokeOffsetsOf(f)
                  /\ r_draws[f].fill = TextColor
                  /\ \A k \in StrokesOf(f) : r_draws[k].fill = StrokeColor

C11_Witness ==
    /\ r_result = "file"
    /\ Len(r_overlays) = 2
    /\ \E f, g \in Fills :
           /\ r_draws[f].ov = 1
           /\ r_draws[g].ov = 2
           /\ f < g
           /\ StrokesOf(f) # {}
           /\ \A k \in StrokesOf(g) : f < k /\ k < g

\* the draw calls of one overlay that is not skipped
RECURSIVE OverlayDraws(_, _, _, _)
OverlayDraws(lay, overlay, j, width) ==
    IF j > Len(lay.lines) THEN <<>>
    ELSE LineDraws(lay, overlay, j, width)
             \o OverlayDraws(lay, overlay, j + 1, width)

\* what a sequence of draw calls paints: the calls without the bookkeeping
\* of which overlay and line they belong to
Painted(draws) ==
    [k \in 1..Len(draws) |->
        [xy |-> draws[k].xy, text |-> draws[k].text,
         fill |-> draws[k].fill, font_size |-> draws[k].font_size]]

\* the calls that render a collection none of whose overlays is skipped
RECURSIVE PaintAll(_, _, _, _)
PaintAll(overlays, i, width, height) ==
    IF i > Len(overlays) THEN <<>>
    ELSE Painted(OverlayDraws(Layout(i, overlays[i], width, height),
                              overlays[i], 1, width))
             \o PaintAll(overlays, i + 1, width, height)

HasText(overlay) == overlay.text # <<>>
EmptyOverlays == {i \in 1..Len(r_overlays) : ~HasText(r_overlays[i])}

\* C12: an overlay with empty text is never laid out (so no font is
\* resolved for it) and never drawn, and the finished rendering paints
\* exactly what the collection without its empty overlays paints.
C12_EmptyOverlaySkipped ==
    /\ \A k \in Calls : r_draws[k].ov \notin EmptyOverlays
    /\ r_lay.ov \notin EmptyOverlays
    /\ r_result = "file" =>
           Painted(r_draws) =
               PaintAll(SelectSeq(r_overlays, HasText), 1, r_width, r_height)

C12_Witness ==
    /\ r_result = "file"
    /\ Len(r_overlays) = 2
    /\ EmptyOverlays = {1}
    /\ r_draws # <<>>
    /\ \A k \in Calls : r_draws[k].ov = 2

\* ------------------------------------------------------------------------
\* Edit boundary: the meme_editor view and MemeEditorForm
\* ------------------------------------------------------------------------

\* CharField(max_length=200) of top_text / bottom_text
MaxTextLength == 200
\* IntegerField(min_value=12, max_value=200) of font_size
MinFormFontSize == 12
MaxFormFontSize == 200

\* one entry of a submitted overlay list: a JSON object with the overlay
\* keys, or (obj = FALSE) a JSON value that is not an object
Entry(text, position, x, y) ==
    [obj |-> TRUE, text |-> text, position |-> position, x |-> x, y |-> y]
NotAnObject == [obj |-> FALSE, text |-> "", position |-> "", x |-> 0, y |-> 0]

\* the values of the hidden field text_overlays_json that are submitted
JsonTexts == {"", "[{", "[top]", "{overlays:[custom]}", "[custom x=150]",
              "[custom y=-5]", "[1]", "[top,'a']", "{meta:1}", "7"}

JSONDecodeError == [ok |-> FALSE, type |-> "", overlays |-> <<>>,
                    has_overlays |-> FALSE]
Parsed(type, has, overlays) ==
    [ok |-> TRUE, type |-> type, overlays |-> overlays, has_overlays |-> has]

\* json.loads(json_data)
json_loads(s) ==
    CASE s = "[{" -> JSONDecodeError
      [] s = "[top]" -> Parsed("list", FALSE, <<Entry("Hi", "top", 50, 50)>>)
      [] s = "{overlays:[custom]}" ->
             Parsed("dict", TRUE, <<Entry("Hi", "custom", 30, 100)>>)
      [] s = "[custom x=150]" ->
             Parsed("list", FALSE, <<Entry("Hi", "custom", 150, 50)>>)
      [] s = "[custom y=-5]" ->
             Parsed("list", FALSE, <<Entry("Hi", "custom", 50, -5)>>)
      [] s = "[1]" -> Parsed("list", FALSE, <<NotAnObject>>)
      [] s = "[top,'a']" ->
             Parsed("list", FALSE, <<Entry("Hi", "top", 50, 50), NotAnObject>>)
      [] s = "{meta:1}" -> Parsed("dict", FALSE, <<>>)
      [] s = "7" -> Parsed("int", FALSE, <<>>)

\* the lengths of the texts typed into top_text / bottom_text (after the
\* CharField has stripped them) and the font sizes submitted
TextLengths == {0, 2, 200, 201}
FormFontSizes == {Null, 11, 12, 48, 200, 201}

Posts ==
    [text_overlays_json : JsonTexts, top_text : TextLengths,
     bottom_text : TextLengths, font_size : FormFontSizes]

\* form.is_valid(): the field validators of MemeEditorForm
is_valid(post) ==
    /\ post.top_text <= MaxTextLength
    /\ post.bottom_text <= MaxTextLength
    /\ post.font_size = Null
         \/ (MinFormFontSize <= post.font_size
               /\ post.font_size <= MaxFormFontSize)

\* the overlays built from the simple fields
SimpleOverlays(post) ==
    (IF post.top_text > 0 THEN <<Entry("top_text", "top", 50, 50)>>
     ELSE <<>>)
    \o (IF post.bottom_text > 0 THEN <<Entry("bottom_text", "bottom", 50, 50)>>
        ELSE <<>>)

\* MemeEditorForm.get_overlays()
FormGetOverlays(post) ==
    LET data == json_loads(post.text_overlays_json)
    IN IF post.text_overlays_json # "" /\ data.ok /\ data.type = "list"
       THEN data.overlays
       ELSE IF post.text_overlays_json # "" /\ data.ok
                 /\ data.type = "dict" /\ data.has_overlays
       THEN data.overlays
       ELSE SimpleOverlays(post)

EditIdle ==
    /\ e_post = [text_overlays_json |-> "", top_text |-> 0,
                 bottom_text |-> 0, font_size |-> Null]
    /\ e_pc = "idle"
    /\ e_response = "none"
    /\ e_memes = {}
    /\ e_rendered = {}

EditInit ==
    /\ e_post \in Posts
    /\ e_pc = "post"
    /\ e_response = "none"
    /\ e_memes = {}
    /\ e_rendered = {}

\* meme_editor saving what MemeEditorForm.get_overlays() returns
meme_editor_getOverlays(found) ==
    /\ e_pc = "post"
    /\ e_pc' = "done"
    /\ IF ~found
       THEN e_response' = "404" /\ UNCHANGED <<e_memes, e_rendered>>
       ELSE IF ~is_valid(e_post)
       THEN e_response' = "form" /\ UNCHANGED <<e_memes, e_rendered>>
       ELSE LET overlays == FormGetOverlays(e_post)
            IN /\ e_memes' = e_memes \cup {overlays}
               /\ e_rendered' = IF overlays # <<>>
                                THEN e_rendered \cup {overlays}
                                ELSE e_rendered
               /\ e_response' = "redirect"
    /\ UNCHANGED <<notEdit, e_post>>

\* meme_editor, POST: the template is looked up (404 when it is missing or
\* flagged); an invalid form is shown again; with a valid form the call
\* form.get_overlays_with_meta() raises AttributeError, MemeEditorForm having
\* no such method, before set_overlays and meme.save() are reached
meme_editor(found) ==
    /\ e_pc = "post"
    /\ e_pc' = "done"
    /\ e_response' = IF ~found THEN "404"
                     ELSE IF ~is_valid(e_post) THEN "form"
                     ELSE "AttributeError"
    /\ UNCHANGED <<notEdit, e_post, e_memes, e_rendered>>

\* the next submission
EditorSubmit(post) ==
    /\ e_pc = "done"
    /\ e_post' = post
    /\ e_pc' = "post"
    /\ e_response' = "none"
    /\ UNCHANGED <<notEdit, e_memes, e_rendered>>

EditNext ==
    \/ \E found \in BOOLEAN : meme_editor(found)
    \/ \E post \in Posts : EditorSubmit(post)

\* an entry the overlay schema allows
ValidEntry(o) ==
    /\ o.obj
    /\ o.position = "custom" => (0 <= o.x /\ o.x <= 100
                                   /\ 0 <= o.y /\ o.y <= 100)
ValidOverlays(overlays) ==
    \A i \in 1..Len(overlays) : ValidEntry(overlays[i])

\* the submission carries invalid overlay input
InvalidInput(post) ==
    LET data == json_loads(post.text_overlays_json)
    IN /\ post.text_overlays_json # ""
       /\ \/ ~data.ok
          \/ ~ValidOverlays(data.overlays)
          \/ data.type \notin {"list", "dict"}

SystemFonts == <<"Impact",
                 "/System/Library/Fonts/Supplemental/Impact.ttf",
                 "/usr/share/fonts/truetype/msttcorefonts/Impact.ttf",
                 "/usr/share/fonts/TTF/impact.ttf",
                 "/usr/share/fonts/truetype/dejavu/DejaVuSans-Bold.ttf",
                 "C:\\Windows\\Fonts\\impact.ttf">>
\* the font shipped with the package
BundledFont == "static/meme_maker/fonts/Anton-Regular.ttf"
\* ImageFont.load_default()
DefaultFont == "load_default"
NoFont == "NoFont"
\* the values of MEME_MAKER['FONT_PATH']: not configured, or a path
NoFontPath == ""
FontPaths == {NoFontPath, "custom.ttf"}

Range(seq) == {seq[i] : i \in 1..Len(seq)}
Candidates == (FontPaths \ {NoFontPath}) \cup Range(SystemFonts)
                  \cup {BundledFont}

\* font_paths with the bundled font tried before the system fonts
font_paths_bundledFirst(custom_font) ==
    (IF custom_font # NoFontPath THEN <<custom_font>> ELSE <<>>)
        \o <<BundledFont>> \o SystemFonts

\* font_paths: the custom font if configured, the system locations, the
\* bundled font
font_paths(custom_font) ==
    (IF custom_font # NoFontPath THEN <<custom_font>> ELSE <<>>)
        \o SystemFonts \o <<BundledFont>>

FontIdle ==
    /\ f_custom = NoFontPath
    /\ f_loadable = {}
    /\ f_pc = "idle"
    /\ f_i = 1
    /\ f_font = NoFont
    /\ f_log = <<>>

\* a call of load_font: the setting, and the candidates that
\* ImageFont.truetype can open on this machine (for the others it raises
\* OSError: the file is missing or cannot be read as a font)
FontInit ==
    /\ f_custom \in FontPaths
    /\ f_loadable \in SUBSET Candidates
    /\ f_pc = "try"
    /\ f_i = 1
    /\ f_font = NoFont
    /\ f_log = <<>>

\* for font_path in font_paths: try: return ImageFont.truetype(...)
\* -- the candidate opens
FontLoads ==
    /\ f_pc = "try"
    /\ f_i <= Len(font_paths(f_custom))
    /\ font_paths(f_custom)[f_i] \in f_loadable
    /\ f_font' = font_paths(f_custom)[f_i]
    /\ f_pc' = "done"
    /\ UNCHANGED <<notFont, f_custom, f_loadable, f_i, f_log>>

\* except (IOError, OSError): continue
FontSkipped ==
    /\ f_pc = "try"
    /\ f_i <= Len(font_paths(f_custom))
    /\ font_paths(f_custom)[f_i] \notin f_loadable
    /\ f_i' = f_i + 1
    /\ UNCHANGED <<notFont, f_custom, f_loadable, f_pc, f_font, f_log>>

\* logger.warning(...); return ImageFont.load_default()
FontDefault ==
    /\ f_pc = "try"
    /\ f_i > Len(font_paths(f_custom))
    /\ f_log' = Append(f_log, "No suitable meme font found")
    /\ f_font' = DefaultFont
    /\ f_pc' = "done"
    /\ UNCHANGED <<notFont, f_custom, f_loadable, f_i>>

FontNext ==
    \/ FontLoads
    \/ FontSkipped
    \/ FontDefault

\* the order of C14: configured FONT_PATH, system locations, bundled font
ClaimedOrder ==
    <<"custom.ttf",
      "Impact",
      "/System/Library/Fonts/Supplemental/Impact.ttf",
      "/usr/share/fonts/truetype/msttcorefonts/Impact.ttf",
      "/usr/share/fonts/TTF/impact.ttf",
      "/usr/share/fonts/truetype/dejavu/DejaVuSans-Bold.ttf",
      "C:\\Windows\\Fonts\\impact.ttf",
      "static/meme_maker/fonts/Anton-Regular.ttf">>
\* the candidates of this call that can be opened, by their rank in the
\* claimed order
Openable ==
    {k \in 1..Len(ClaimedOrder) :
        /\ ClaimedOrder[k] \in f_loadable
        /\ k = 1 => f_custom = "custom.ttf"}

\* C14: load_font returns the first candidate, in the order FONT_PATH,
\* system locations, bundled font, that opens, and the built-in face when
\* none does; nothing is logged for a candidate that is passed over; a font
\* is always returned; the warning is logged, once, exactly when the
\* built-in face is returned.
C14_LoadFontOrder ==
    /\ f_pc = "try" => f_log = <<>>
    /\ f_pc = "done" =>
          /\ f_font # NoFont
          /\ Openable = {} => f_font = DefaultFont
          /\ Openable # {} =>
                 \E k \in Openable : /\ f_font = ClaimedOrder[k]
                                     /\ \A l \in Openable : k <= l
          /\ Len(f_log) = (IF f_font = DefaultFont THEN 1 ELSE 0)

C14_Witness ==
    /\ f_pc = "done"
    /\ f_custom = "custom.ttf"
    /\ f_loadable = {"/usr/share/fonts/TTF/impact.ttf", BundledFont}
    /\ f_font = "/usr/share/fonts/TTF/impact.ttf"
    /\ f_i = 5
    /\ f_log = <<>>

\* ------------------------------------------------------------------------
\* _apply_watermark
\* ------------------------------------------------------------------------

RECURSIVE OddPart(_)
OddPart(w) == IF w % 2 = 0 THEN OddPart(w \div 2) ELSE w

\* the exponent of 2 in w
RECURSIVE TwoAdic(_)
TwoAdic(w) == IF w % 2 = 0 THEN 1 + TwoAdic(w \div 2) ELSE 0

RECURSIVE Pow2Mod(_, _)
Pow2Mod(s, m) == IF s = 0 THEN 1 % m ELSE (2 * Pow2Mod(s - 1, m)) % m

\* 2^(b+10) where 2^b <= h / w < 2^(b+1): the binade of the quotient h / w
RECURSIVE QuotientBinade(_, _, _)
QuotientBinade(h, w, p) ==
    IF 2 * p * w <= h * 1024 THEN QuotientBinade(h, w, 2 * p) ELSE p

\* int(a * (h / w)) for integers a >= 0, h > 0, w > 0, the quotient and the
\* product in IEEE double precision.  The quotient is exact when w is a
\* power of two; otherwise its 53-bit significand is h * 2^s / m rounded to
\* nearest, m the odd part of w, and r is the remainder the rounding drops
\* (2r < m) or fills up (2r > m).  The product falls below the integer n
\* only when n is its exact value and the quotient was rounded down by more
\* than half a unit in the last place of n; truncation then yields n - 1.
IntOfProduct(a, h, w) ==
    LET n == (a * h) \div w
        m == OddPart(w)
        pb == QuotientBinade(h, w, 1)
        s == 62 - Log2(pb) - TwoAdic(w)
        r == ((h % m) * Pow2Mod(s, m)) % m
        k == IF Pow2Floor(n) = n THEN 4 ELSE 2
    IN IF (a * h) % w # 0 \/ m = 1 \/ 2 * r > m THEN n
       ELSE IF k * a * r * pb > m * 1024 * Pow2Floor(n) THEN n - 1
       ELSE n

\* MEME_MAKER['WATERMARK_IMAGE']: not configured, an absolute path, a path
\* relative to the static files or to BASE_DIR
NoWatermark == ""
WatermarkPaths == {NoWatermark, "/srv/wm.png", "img/wm.png"}
isabs(path) == path = "/srv/wm.png"

\* WATERMARK_SCALE as the fraction num / den whose double the setting holds
Scales == {[num |-> 1, den |-> 10], [num |-> 3, den |-> 20],
           [num |-> 29, den |-> 100]}
Paddings == {0, 10}
\* WATERMARK_OPACITY in percent
Opacities == {70, 100}
ImageSizes == {<<1000, 1000>>, <<600, 400>>, <<100, 50>>, <<5, 5>>}
WatermarkSizes == {<<100, 100>>, <<100, 70>>}

\* what finders.find(watermark_path) does: a path, None, or the
\* SuspiciousFileOperation of a path outside the static roots
FinderOutcomes == {"found", "None", "SuspiciousFileOperation"}

\* a call of _apply_watermark: the settings, the image, and the file system
\* it meets.  os.path.join(BASE_DIR, path) is path itself when path is
\* absolute, and the finders find no absolute path that does not exist.
MarkInputs ==
    {c \in [path : WatermarkPaths, exists : BOOLEAN,
            finder : FinderOutcomes, base_dir : BOOLEAN,
            base_exists : BOOLEAN, decodable : BOOLEAN,
            img : ImageSizes, wm : WatermarkSizes, scale : Scales,
            padding : Paddings, opacity : Opacities] :
        /\ isabs(c.path) => (c.base_exists = c.exists /\ c.finder # "found")
        /\ ~isabs(c.path) => ~c.exists
        /\ c.path = NoWatermark =>
              (c.finder = "None" /\ ~c.base_exists /\ c.decodable)}

\* the image as it was passed in
Unmarked == [pasted |-> FALSE, size |-> <<0, 0>>, at |-> <<0, 0>>,
             alpha |-> 0]

MarkIdle ==
    /\ m_in = [path |-> NoWatermark, exists |-> FALSE, finder |-> "None",
               base_dir |-> FALSE, base_exists |-> FALSE,
               decodable |-> TRUE, img |-> <<0, 0>>, wm |-> <<0, 0>>,
               scale |-> [num |-> 3, den |-> 20], padding |-> 0,
               opacity |-> 100]
    /\ m_pc = "idle"
    /\ m_file = "None"
    /\ m_out = Unmarked
    /\ m_log = <<>>
    /\ m_raised = FALSE

MarkInit ==
    /\ m_in \in MarkInputs
    /\ m_pc = "find"
    /\ m_file = "None"
    /\ m_out = Unmarked
    /\ m_log = <<>>
    /\ m_raised = FALSE

\* the except clause letting the exception out
MarkExcept_reraise ==
    /\ m_pc' = "done"
    /\ m_raised' = TRUE
    /\ UNCHANGED <<notMark, m_in, m_file, m_out, m_log>>

\* except Exception as e: logger.warning(...); return img
MarkExcept ==
    /\ m_pc' = "done"
    /\ m_log' = Append(m_log, "Failed to apply watermark")
    /\ UNCHANGED <<notMark, m_in, m_file, m_out, m_raised>>

\* return img, with or without a warning
MarkReturn(log) ==
    /\ m_pc' = "done"
    /\ m_log' = m_log \o log
    /\ UNCHANGED <<notMark, m_in, m_file, m_out, m_raised>>

MarkFound(file) ==
    /\ m_pc' = "open"
    /\ m_file' = file
    /\ UNCHANGED <<notMark, m_in, m_out, m_log, m_raised>>

\* from the test of WATERMARK_IMAGE to the test `if not watermark_img`
MarkFind ==
    /\ m_pc = "find"
    /\ IF m_in.path = NoWatermark THEN MarkReturn(<<>>)
       ELSE IF isabs(m_in.path) /\ m_in.exists THEN MarkFound("absolute")
       ELSE IF m_in.finder = "SuspiciousFileOperation" THEN MarkExcept
       ELSE IF m_in.finder = "found" THEN MarkFound("static")
       ELSE IF m_in.base_dir /\ m_in.base_exists THEN MarkFound("base")
       ELSE MarkReturn(<<"Watermark image not found">>)

\* Image.open of the file found, resize, opacity, paste
MarkPaste ==
    /\ m_pc = "open"
    /\ LET new_wm_width ==
               IntOfProduct(m_in.img[1], m_in.scale.num, m_in.scale.den)
           new_wm_height ==
               IntOfProduct(new_wm_width, m_in.wm[2], m_in.wm[1])
           x == m_in.img[1] - new_wm_width - m_in.padding
           y == m_in.img[2] - new_wm_height - m_in.padding
       IN IF ~m_in.decodable THEN MarkExcept
          ELSE IF new_wm_width < 1 \/ new_wm_height < 1 THEN MarkExcept
          ELSE /\ m_out' = [pasted |-> TRUE,
                            size |-> <<new_wm_width, new_wm_height>>,
                            at |-> <<x, y>>,
                            alpha |-> IF m_in.opacity < 100
                                      THEN m_in.opacity ELSE 100]
               /\ m_pc' = "done"
               /\ UNCHANGED <<notMark, m_in, m_file, m_log, m_raised>>

MarkNext ==
    \/ MarkFind
    \/ MarkPaste

\* the configured path names no existing file: not as an absolute path, not
\* through the static files finders, not under BASE_DIR
NoFileResolves ==
    /\ m_in.path # NoWatermark
    /\ ~(isabs(m_in.path) /\ m_in.exists)
    /\ m_in.finder # "found"
    /\ ~(m_in.base_dir /\ m_in.base_exists)

\* C15: _apply_watermark never raises; with no WATERMARK_IMAGE configured
\* it returns the image as it is and logs nothing; with a path that
\* resolves to no existing file it logs one warning and returns the image
\* as it is.
C15_WatermarkMissing ==
    /\ ~m_raised
    /\ m_pc = "done" =>
          /\ m_in.path = NoWatermark => (m_out = Unmarked /\ m_log = <<>>)
          /\ NoFileResolves => (m_out = Unmarked /\ Len(m_log) = 1)

C15_Witness ==
    /\ m_pc = "done"
    /\ NoFileResolves
    /\ isabs(m_in.path)
    /\ m_in.finder = "SuspiciousFileOperation"
    /\ m_out = Unmarked
    /\ Len(m_log) = 1
    /\ ~m_raised

\* C16: a pasted watermark has, to the pixel, the width scale * image_width
\* and the height that keeps its aspect ratio, and its top-left corner is
\* at (image_width - watermark_width - padding, image_height -
\* watermark_height - padding); a 100x100 watermark on a 1000x1000 image
\* with scale 0.1 and padding 10 lands at (890, 890).
C16_WatermarkPlacement ==
    m_out.pasted =>
        LET W == m_in.img[1]
            H == m_in.img[2]
            w == m_out.size[1]
            h == m_out.size[2]
        IN /\ m_in.scale.den * w <= m_in.scale.num * W
           /\ m_in.scale.num * W < m_in.scale.den * (w + 1)
           /\ m_in.wm[1] * h <= w * m_in.wm[2]
           /\ w * m_in.wm[2] < m_in.wm[1] * (h + 1)
           /\ m_out.at = <<W - w - m_in.padding, H - h - m_in.padding>>
           /\ (m_in.img = <<1000, 1000>> /\ m_in.wm = <<100, 100>>
                 /\ m_in.scale = [num |-> 1, den |-> 10]
                 /\ m_in.padding = 10) => m_out.at = <<890, 890>>

\* ------------------------------------------------------------------------
\* Ratings: RatingMixin and the rate_template / rate_meme views
\* ------------------------------------------------------------------------

MinStars == 1
MaxStars == 5

\* the requests being handled
RateProcs == {"q1", "q2"}
\* the rated objects that exist (and are not flagged), and a pk that
\* get_object_or_404 does not find
Items == {"template:1", "meme:1"}
RateTargets == Items \cup {"template:9"}
Sessions == {"s1", "s2"}

\* request bodies
RateBodies == {"{\"stars\": 1}", "{\"stars\": \"4\"}", "{\"stars\": 4.7}",
               "{}", "{\"stars\": 6}", "{\"stars\": \"x\"}", "{",
               "{\"stars\": null}", "[5]", "{\"stars\": 1e999}"}

Stars(n) == [exc |-> "", stars |-> n]
Raises(exc) == [exc |-> exc, stars |-> 0]

\* data = json.loads(request.body); stars = int(data.get('stars', 0))
ParseStars(body) ==
    CASE body = "{\"stars\": 1}" -> Stars(1)
      [] body = "{\"stars\": \"4\"}" -> Stars(4)
      [] body = "{\"stars\": 4.7}" -> Stars(4)
      [] body = "{}" -> Stars(0)
      [] body = "{\"stars\": 6}" -> Stars(6)
      [] body = "{\"stars\": \"x\"}" -> Raises("ValueError")
      [] body = "{" -> Raises("JSONDecodeError")
      [] body = "{\"stars\": null}" -> Raises("TypeError")
      [] body = "[5]" -> Raises("AttributeError")
      [] body = "{\"stars\": 1e999}" -> Raises("OverflowError")

\* get_average_rating(), in tenths: round(rating_sum / rating_count, 1).
\* With fewer than 20 ratings a quotient that lies halfway between two
\* tenths is exact in binary and round() takes the even neighbour.
get_average_rating(self) ==
    IF self.rating_count = 0 THEN 0
    ELSE RoundDiv(10 * self.rating_sum, self.rating_count)

Returns(self, value) ==
    [exc |-> "", inst |-> self, saved |-> TRUE, value |-> value]
RaisesValueError(self) ==
    [exc |-> "ValueError", inst |-> self, saved |-> FALSE, value |-> 0]

\* add_rating(stars)
add_rating(self, stars) ==
    IF ~(MinStars <= stars /\ stars <= MaxStars) THEN RaisesValueError(self)
    ELSE LET new == [rating_sum |-> self.rating_sum + stars,
                     rating_count |-> self.rating_count + 1]
         IN Returns(new, get_average_rating(new))

\* update_rating that forgets to take the old stars out of the sum
update_rating_keepsOld(self, old_stars, new_stars) ==
    IF ~(MinStars <= new_stars /\ new_stars <= MaxStars)
    THEN RaisesValueError(self)
    ELSE LET new == [rating_sum |-> self.rating_sum + new_stars,
                     rating_count |-> self.rating_count]
         IN Returns(new, get_average_rating(new))

\* update_rating(old_stars, new_stars)
update_rating(self, old_stars, new_stars) ==
    IF ~(MinStars <= new_stars /\ new_stars <= MaxStars)
    THEN RaisesValueError(self)
    ELSE LET new == [rating_sum |-> self.rating_sum - old_stars + new_stars,
                     rating_count |-> self.rating_count]
         IN Returns(new, get_average_rating(new))

NoAggregate == [rating_sum |-> 0, rating_count |-> 0]
NoRequest ==
    [pc |-> "idle", item |-> "", session |-> "", body |-> "", stars |-> 0,
     inst |-> NoAggregate, existing |-> 0, old_stars |-> 0,
     status |-> 0, average |-> 0, before |-> <<>>]

RateIdle ==
    /\ rt_items = [i \in Items |-> NoAggregate]
    /\ rt_rows = {}
    /\ rt_next_id = 1
    /\ rt_req = [p \in RateProcs |-> NoRequest]
    /\ rt_latest = [k \in Items \X Sessions |-> 0]

\* the rating rows of an item and session
RowsOf(item, session) ==
    {row \in rt_rows : row.item = item /\ row.session = session}

Respond(p, status, average) ==
    rt_req' = [rt_req EXCEPT ![p].pc = "done", ![p].status = status,
                             ![p].average = average]

\* the view up to _ensure_session: get_object_or_404, the request body
RateRequestFrom(p, item, session, body, before) ==
    /\ rt_req[p].pc = "idle"
    /\ LET parsed == ParseStars(body)
           req == [NoRequest EXCEPT !.pc = "done", !.item = item,
                                    !.session = session, !.body = body,
                                    !.before = before]
       IN /\ rt_req' = [rt_req EXCEPT ![p] =
              IF item \notin Items THEN [req EXCEPT !.status = 404]
              ELSE IF parsed.exc \in {"JSONDecodeError", "ValueError",
                                      "TypeError"}
                   THEN [req EXCEPT !.status = 400]
              ELSE IF parsed.exc # "" THEN [req EXCEPT !.status = 500]
              ELSE IF ~(MinStars <= parsed.stars /\ parsed.stars <= MaxStars)
                   THEN [req EXCEPT !.status = 400]
              ELSE [req EXCEPT !.pc = "lookup", !.stars = parsed.stars,
                               !.inst = rt_items[item]]]
       /\ rt_latest' =
              IF /\ item \in Items
                 /\ parsed.exc = ""
                 /\ MinStars <= parsed.stars /\ parsed.stars <= MaxStars
              THEN [rt_latest EXCEPT ![<<item, session>>] = parsed.stars]
              ELSE rt_latest
    /\ UNCHANGED <<notRate, rt_items, rt_rows, rt_next_id>>

\* a request comes in; the aggregates and rows it finds are remembered
RateRequest(p, item, session, body) ==
    RateRequestFrom(p, item, session, body, <<rt_items, rt_rows>>)

\* TemplateRating.objects.get(template=template, session_key=session_key)
RateLookup(p) ==
    /\ rt_req[p].pc = "lookup"
    /\ LET found == RowsOf(rt_req[p].item, rt_req[p].session)
       IN IF found = {}
          THEN rt_req' = [rt_req EXCEPT ![p].pc = "create"]
          ELSE \E row \in found :
                   rt_req' = [rt_req EXCEPT ![p].pc = "save",
                                            ![p].existing = row.id,
                                            ![p].old_stars = row.stars]
    /\ UNCHANGED <<notRate, rt_items, rt_rows, rt_next_id, rt_latest>>

\* existing.stars = stars; existing.save()
RateSaveExisting(p) ==
    /\ rt_req[p].pc = "save"
    /\ rt_rows' = {row \in rt_rows : row.id # rt_req[p].existing}
                     \cup {[id |-> rt_req[p].existing,
                            item |-> rt_req[p].item,
                            session |-> rt_req[p].session,
                            stars |-> rt_req[p].stars]}
    /\ rt_req' = [rt_req EXCEPT ![p].pc = "update_rating"]
    /\ UNCHANGED <<notRate, rt_items, rt_next_id, rt_latest>>

\* TemplateRating.objects.create(...): unique_together raises
\* IntegrityError when the session already has a row for the item
RateCreate(p) ==
    /\ rt_req[p].pc = "create"
    /\ IF RowsOf(rt_req[p].item, rt_req[p].session) # {}
       THEN /\ Respond(p, 500, 0)
            /\ UNCHANGED <<rt_rows, rt_next_id>>
       ELSE /\ rt_rows' = rt_rows \cup {[id |-> rt_next_id,
                                         item |-> rt_req[p].item,
                                         session |-> rt_req[p].session,
                                         stars |-> rt_req[p].stars]}
            /\ rt_next_id' = rt_next_id + 1
            /\ rt_req' = [rt_req EXCEPT ![p].pc = "add_rating"]
    /\ UNCHANGED <<notRate, rt_items, rt_latest>>

\* template.update_rating(old_stars, stars) or template.add_rating(stars),
\* with its save(update_fields=['rating_sum', 'rating_count']), and the
\* JsonResponse; rating_sum is a PositiveIntegerField, whose check
\* constraint refuses a negative value with an IntegrityError
RateAggregate(p) ==
    /\ rt_req[p].pc \in {"update_rating", "add_rating"}
    /\ LET r == rt_req[p]
           call == IF r.pc = "update_rating"
                   THEN update_rating(r.inst, r.old_stars, r.stars)
                   ELSE add_rating(r.inst, r.stars)
           stored == call.saved /\ call.inst.rating_sum >= 0
       IN /\ rt_items' = IF stored
                         THEN [rt_items EXCEPT ![r.item] = call.inst]
                         ELSE rt_items
          /\ rt_req' = [rt_req EXCEPT ![p].pc = "done",
                            ![p].inst = call.inst,
                            ![p].status = IF stored THEN 200 ELSE 500,
                            ![p].average = IF stored THEN call.value ELSE 0]
    /\ UNCHANGED <<notRate, rt_rows, rt_next_id, rt_latest>>

\* the response leaves the view
RateReturn(p) ==
    /\ rt_req[p].pc = "done"
    /\ rt_req' = [rt_req EXCEPT ![p] = NoRequest]
    /\ UNCHANGED <<notRate, rt_items, rt_rows, rt_next_id, rt_latest>>

\* no request is being handled
RateQuiet == \A p \in RateProcs : rt_req[p].pc = "idle"

\* requests handled one after the other
RateNext ==
    \/ \E p \in RateProcs, item \in RateTargets, session \in Sessions,
          body \in RateBodies :
           RateQuiet /\ RateRequest(p, item, session, body)
    \/ \E p \in RateProcs : RateLookup(p)
    \/ \E p \in RateProcs : RateSaveExisting(p)
    \/ \E p \in RateProcs : RateCreate(p)
    \/ \E p \in RateProcs : RateAggregate(p)
    \/ \E p \in RateProcs : RateReturn(p)

\* the rating rows an item and session had when the request of p came in
RowsBefore(p) ==
    {row \in rt_req[p].before[2] :
        row.item = rt_req[p].item /\ row.session = rt_req[p].session}

\* p has answered a rating of an object its session had rated before
RepeatRated(p) ==
    /\ rt_req[p].pc = "done"
    /\ rt_req[p].status = 200
    /\ RowsBefore(p) # {}

\* C17: after any sequence of rate requests every (item, session) has at most
\* one rating row, holding the stars that session sent last for the item, and
\* a repeat rating leaves rating_count unchanged and changes rating_sum by
\* exactly new stars - old stars.
C17_OneRatingPerSession ==
    /\ \A item \in Items, session \in Sessions :
           /\ Cardinality(RowsOf(item, session)) <= 1
           /\ RateQuiet =>
                  IF rt_latest[<<item, session>>] = 0
                  THEN RowsOf(item, session) = {}
                  ELSE \E row \in RowsOf(item, session) :
                           row.stars = rt_latest[<<item, session>>]
    /\ \A p \in RateProcs :
           RepeatRated(p) =>
               LET r == rt_req[p]
                   was == r.before[1][r.item]
               IN \A old \in RowsBefore(p) :
                      /\ rt_items[r.item].rating_count = was.rating_count
                      /\ rt_items[r.item].rating_sum - was.rating_sum
                             = r.stars - old.stars

\* a session has changed its rating of an object that another session rated too
C17_Witness ==
    \E p \in RateProcs :
        /\ RepeatRated(p)
        /\ \E old \in RowsBefore(p) : old.stars # rt_req[p].stars
        /\ \E row \in rt_rows : /\ row.item = rt_req[p].item
                                /\ row.session # rt_req[p].session

\* bodies whose stars are out of range or cannot be parsed
InvalidBodies ==
    {"{}", "{\"stars\": 6}", "{\"stars\": \"x\"}", "{", "{\"stars\": null}",
     "[5]", "{\"stars\": 1e999}"}

\* the aggregates an object with up to three ratings can have
Aggregates ==
    {a \in [rating_sum : 0..15, rating_count : 0..3] :
        /\ a.rating_count * MinStars <= a.rating_sum
        /\ a.rating_sum <= a.rating_count * MaxStars}

\* C18: add_rating(stars) with 1 <= stars <= 5 increases rating_count by 1 and
\* rating_sum by stars and returns the new average; outside 1..5 it raises
\* ValueError and leaves both unchanged; the rate views answer 400 for
\* out-of-range or unparsable stars, create no rating row and leave the
\* aggregates unchanged.
C18_InvalidStarsRejected ==
    /\ \A a \in Aggregates, stars \in -1..7 :
           LET call == add_rating(a, stars)
           IN IF 1 <= stars /\ stars <= 5
              THEN /\ call.exc = ""
                   /\ call.saved
                   /\ call.inst.rating_count = a.rating_count + 1
                   /\ call.inst.rating_sum = a.rating_sum + stars
                   /\ call.value = RoundDiv(10 * (a.rating_sum + stars),
                                            a.rating_count + 1)
              ELSE /\ call.exc = "ValueError"
                   /\ ~call.saved
                   /\ call.inst = a
    /\ \A p \in RateProcs :
           (/\ rt_req[p].pc = "done"
            /\ rt_req[p].item \in Items
            /\ rt_req[p].body \in InvalidBodies)
               => /\ rt_req[p].status = 400
                  /\ <<rt_items, rt_rows>> = rt_req[p].before

\* ------------------------------------------------------------------------
\* Links: LinkableMixin.link_to / unlink_from / is_linked_to
\* ------------------------------------------------------------------------

\* the number of link rows that get created
MaxLinks == 2

\* the instances that are linked, and the link model of each
Linkers == {"template:1", "meme:1", "meme:2"}
link_model(self) == IF self = "template:1" THEN "TemplateLink" ELSE "MemeLink"

\* the objects linked to: (model, pk)
LinkTargets == {<<"product", 1>>, <<"campaign", 1>>}

\* ContentType.objects.get_for_model(obj)
content_type(obj) == obj[1]

\* **extra_fields
Unset == "<unset>"
ExtraFields ==
    {[link_type |-> Unset, metadata |-> Unset],
     [link_type |-> "featured", metadata |-> "{\"n\": 1}"]}

NoLink ==
    [id |-> 0, model |-> "", owner |-> "", content_type |-> "",
     object_id |-> 0, link_type |-> "", metadata |-> ""]
NoCall ==
    [op |-> "", self |-> "", obj |-> <<"", 0>>,
     extra_fields |-> [link_type |-> Unset, metadata |-> Unset],
     link |-> NoLink, removed |-> FALSE, before |-> {}]

LinkIdle ==
    /\ lk_links = {}
    /\ lk_next_id = [t \in {"TemplateLink", "MemeLink"} |-> 1]
    /\ lk_last = [k \in Linkers \X LinkTargets |-> ""]
    /\ lk_call = NoCall

\* link_model.objects.filter(<fk_field>=self, content_type=content_type,
\*                           object_id=obj.pk)
LinksIn(links, self, obj) ==
    {link \in links : /\ link.model = link_model(self)
                      /\ link.owner = self
                      /\ link.content_type = content_type(obj)
                      /\ link.object_id = obj[2]}

\* unlink_from whose filter leaves out the content type
Unlinked_anyType(self, obj) ==
    {link \in lk_links : /\ link.model = link_model(self)
                         /\ link.owner = self
                         /\ link.object_id = obj[2]}

\* the rows unlink_from deletes
Unlinked(self, obj) == LinksIn(lk_links, self, obj)

\* the row get_or_create creates: the lookup and the defaults, the model's
\* field defaults for the rest
NewLink(self, obj, extra_fields) ==
    [id |-> lk_next_id[link_model(self)],
     model |-> link_model(self),
     owner |-> self,
     content_type |-> content_type(obj),
     object_id |-> obj[2],
     link_type |-> IF extra_fields.link_type = Unset THEN ""
                   ELSE extra_fields.link_type,
     metadata |-> IF extra_fields.metadata = Unset THEN "{}"
                  ELSE extra_fields.metadata]

\* get_or_create that writes the defaults to the row it finds
get_or_create_update(self, obj, extra_fields) ==
    LET found == LinksIn(lk_links, self, obj)
    IN IF found # {}
       THEN LET old == CHOOSE link \in found : TRUE
                link == [NewLink(self, obj, extra_fields) EXCEPT !.id = old.id]
            IN [link |-> link, created |-> FALSE,
                links |-> (lk_links \ found) \cup {link}]
       ELSE [link |-> NewLink(self, obj, extra_fields), created |-> TRUE,
             links |-> lk_links \cup {NewLink(self, obj, extra_fields)}]

\* link_model.objects.get_or_create(..., defaults=extra_fields)
get_or_create(self, obj, extra_fields) ==
    LET found == LinksIn(lk_links, self, obj)
    IN IF found # {}
       THEN [link |-> CHOOSE link \in found : TRUE, created |-> FALSE,
             links |-> lk_links]
       ELSE [link |-> NewLink(self, obj, extra_fields), created |-> TRUE,
             links |-> lk_links \cup {NewLink(self, obj, extra_fields)}]

\* what link_to does to the links
LinkTo(self, obj, extra_fields) ==
    LET got == get_or_create(self, obj, extra_fields)
    IN /\ got.created =>
              lk_next_id["TemplateLink"] + lk_next_id["MemeLink"] - 2 < MaxLinks
       /\ lk_links' = got.links
       /\ lk_next_id' = IF got.created
                        THEN [lk_next_id EXCEPT ![link_model(self)] = @ + 1]
                        ELSE lk_next_id
       /\ lk_last' = [lk_last EXCEPT ![<<self, obj>>] = "link_to"]
       /\ lk_call' = [NoCall EXCEPT !.op = "link_to", !.self = self,
                                     !.obj = obj,
                                     !.extra_fields = extra_fields,
                                     !.link = got.link, !.before = lk_links]

\* self.link_to(obj, **extra_fields)
link_to(self, obj, extra_fields) ==
    LinkTo(self, obj, extra_fields) /\ UNCHANGED notLink

\* self.unlink_from(obj)
unlink_from(self, obj) ==
    LET deleted == Unlinked(self, obj)
    IN /\ lk_links' = lk_links \ deleted
       /\ lk_last' = [lk_last EXCEPT ![<<self, obj>>] = "unlink_from"]
       /\ lk_call' = [NoCall EXCEPT !.op = "unlink_from", !.self = self,
                                     !.obj = obj,
                                     !.removed = Cardinality(deleted) > 0,
                                     !.before = lk_links]
       /\ UNCHANGED <<notLink, lk_next_id>>

\* self.is_linked_to(obj)
is_linked_to(self, obj) == LinksIn(lk_links, self, obj) # {}

LinkNext ==
    \/ \E self \in Linkers, obj \in LinkTargets, extra_fields \in ExtraFields :
           link_to(self, obj, extra_fields)
    \/ \E self \in Linkers, obj \in LinkTargets : unlink_from(self, obj)

\* the rows that link the instance of a call to the object of the call
PairLinks(links) ==
    {link \in links : /\ link.model = link_model(lk_call.self)
                      /\ link.owner = lk_call.self
                      /\ link.content_type = lk_call.obj[1]
                      /\ link.object_id = lk_call.obj[2]}

\* C19: link_to is idempotent: linking the same instance to the same object
\* any number of times, with any extra fields, leaves exactly one link row
\* for the pair and returns that same link every time.
C19_LinkToIdempotent ==
    /\ \A self \in Linkers, obj \in LinkTargets :
           Cardinality(LinksIn(lk_links, self, obj)) <= 1
    /\ lk_call.op = "link_to" =>
           /\ PairLinks(lk_links) = {lk_call.link}
           /\ PairLinks(lk_call.before) # {} =>
                  /\ PairLinks(lk_call.before) = {lk_call.link}
                  /\ lk_links = lk_call.before

\* an instance is linked again to an object, with extra fields that differ
\* from the ones of the link it has
C19_Witness ==
    /\ lk_call.op = "link_to"
    /\ lk_call.extra_fields.link_type = "featured"
    /\ lk_call.link.link_type = ""
    /\ PairLinks(lk_call.before) # {}
    /\ lk_last[<<lk_call.self, lk_call.obj>>] = "link_to"
    /\ Cardinality(lk_links) > 1

\* C20: is_linked_to(obj) is true exactly when the last call concerning obj
\* was link_to; unlink_from(obj) returns True iff a link to obj existed just
\* before the call, and it leaves the links to every other object unchanged.
C20_UnlinkFrom ==
    /\ \A self \in Linkers, obj \in LinkTargets :
           is_linked_to(self, obj) <=> lk_last[<<self, obj>>] = "link_to"
    /\ lk_call.op = "unlink_from" =>
           /\ lk_call.removed <=> PairLinks(lk_call.before) # {}
           /\ lk_links \ PairLinks(lk_links)
                  = lk_call.before \ PairLinks(lk_call.before)

\* a link is removed from an instance that is also linked to an object of
\* another type with the same primary key
C20_Witness ==
    /\ lk_call.op = "unlink_from"
    /\ lk_call.removed
    /\ \E link \in lk_links :
           /\ link.owner = lk_call.self
           /\ link.object_id = lk_call.obj[2]
           /\ link.content_type # lk_call.obj[1]

\* the managers with linked_to, the link model of each and its instances
Managers == {"MemeTemplate", "Meme"}
related_model(manager) ==
    IF manager = "MemeTemplate" THEN "TemplateLink" ELSE "MemeLink"
InstancesOf(manager) == {self \in Linkers : link_model(self) = related_model(manager)}

\* linked_to that filters the links on the object id alone
linked_to_anyType(manager, obj) ==
    LET linked_ids == {link.owner : link \in
                          {l \in lk_links : /\ l.model = related_model(manager)
                                            /\ l.object_id = obj[2]}}
    IN {self \in InstancesOf(manager) : self \in linked_ids}

\* Meme.objects.linked_to(obj), MemeTemplate.objects.linked_to(obj)
linked_to(manager, obj) ==
    LET linked_ids == {link.owner : link \in
                          {l \in lk_links : /\ l.model = related_model(manager)
                                            /\ l.content_type = content_type(obj)
                                            /\ l.object_id = obj[2]}}
    IN {self \in InstancesOf(manager) : self \in linked_ids}

\* C21: Meme.objects.linked_to(obj) and MemeTemplate.objects.linked_to(obj)
\* return exactly the instances that currently have a link to obj (content
\* type and object id both matching): the instances whose last call
\* concerning obj was link_to.
C21_LinkedTo ==
    \A manager \in Managers, obj \in LinkTargets :
        linked_to(manager, obj) =
            {self \in InstancesOf(manager) : lk_last[<<self, obj>>] = "link_to"}

\* one instance of a model is linked to an object and another instance of the
\* model only to an object of another type with the same primary key
C21_Witness ==
    \E manager \in Managers, obj \in LinkTargets, other \in LinkTargets :
        /\ other[1] # obj[1] /\ other[2] = obj[2]
        /\ \E a \in InstancesOf(manager), b \in InstancesOf(manager) :
               /\ a # b
               /\ linked_to(manager, obj) = {a}
               /\ b \in linked_to(manager, other)

\* ------------------------------------------------------------------------
\* Deleting templates and memes: on_delete of TemplateLink.template,
\* MemeLink.meme and Meme.template
\* ------------------------------------------------------------------------

LinkedTemplates == {self \in Linkers : link_model(self) = "TemplateLink"}
LinkedMemes == {self \in Linkers : link_model(self) = "MemeLink"}

\* Meme.template is null
NoTemplate == ""

\* text_overlays of the stored memes
StoredOverlays == {"[]", "[{\"text\": \"A\", \"position\": \"top\"}]"}

NoDelete ==
    [op |-> "", self |-> "", links |-> {}, templates |-> {},
     memes |-> [m \in LinkedMemes |->
                   [exists |-> FALSE, template |-> NoTemplate,
                    text_overlays |-> "[]"]]]

DeleteIdle ==
    /\ dl_templates = {}
    /\ dl_memes = NoDelete.memes
    /\ dl_call = NoDelete

\* the templates and the memes are stored, each meme made from a template or
\* from an uploaded image
DeleteInit ==
    /\ dl_templates = LinkedTemplates
    /\ dl_memes \in [LinkedMemes ->
                       [exists : {TRUE},
                        template : LinkedTemplates \cup {NoTemplate},
                        text_overlays : StoredOverlays]]
    /\ \E m \in LinkedMemes : dl_memes[m].text_overlays # "[]"
    /\ dl_call = NoDelete

\* the instance is stored
Stored(self) ==
    IF self \in LinkedTemplates THEN self \in dl_templates
    ELSE dl_memes[self].exists

\* on_delete=models.CASCADE of TemplateLink.template and MemeLink.meme
CascadeLinks(self) == {link \in lk_links : link.owner # self}

\* Meme.template with on_delete=models.CASCADE
Meme_template_cascade(self) ==
    [m \in LinkedMemes |->
        IF dl_memes[m].template = self
        THEN [dl_memes[m] EXCEPT !.exists = FALSE]
        ELSE dl_memes[m]]

\* Meme.template: on_delete=models.SET_NULL
Meme_template(self) ==
    [m \in LinkedMemes |->
        IF dl_memes[m].template = self
        THEN [dl_memes[m] EXCEPT !.template = NoTemplate]
        ELSE dl_memes[m]]

Deleted(op, self) ==
    [op |-> op, self |-> self, links |-> lk_links,
     templates |-> dl_templates, memes |-> dl_memes]

\* MemeTemplate.delete(): super().delete() with its collector
DeleteTemplate(self) ==
    /\ self \in dl_templates
    /\ dl_templates' = dl_templates \ {self}
    /\ lk_links' = CascadeLinks(self)
    /\ dl_memes' = Meme_template(self)
    /\ dl_call' = Deleted("MemeTemplate.delete", self)
    /\ UNCHANGED <<notLinkDelete, lk_next_id, lk_last, lk_call>>

\* Meme.delete(): super().delete() with its collector
DeleteMeme(self) ==
    /\ self \in LinkedMemes
    /\ dl_memes[self].exists
    /\ dl_memes' = [dl_memes EXCEPT ![self].exists = FALSE]
    /\ lk_links' = CascadeLinks(self)
    /\ dl_call' = Deleted("Meme.delete", self)
    /\ UNCHANGED <<notLinkDelete, lk_next_id, lk_last, lk_call, dl_templates>>

DeleteNext ==
    \/ \E self \in Linkers, obj \in LinkTargets :
           Stored(self) /\ link_to(self, obj, NoCall.extra_fields)
    \/ \E self \in LinkedTemplates : DeleteTemplate(self)
    \/ \E self \in LinkedMemes : DeleteMeme(self)

\* C22: deleting a template deletes its TemplateLink rows and deleting a meme
\* deletes its MemeLink rows; deleting a template never deletes the memes
\* made from it: each still exists, with template = null and its overlay
\* data unchanged.
C22_DeleteCascade ==
    /\ [](\A link \in lk_links : Stored(link.owner))
    /\ [][/\ \A self \in Linkers :
                 (Stored(self) /\ ~Stored(self)') =>
                     \A link \in lk_links' : link.owner # self
          /\ \A self \in LinkedTemplates :
                 (self \in dl_templates /\ self \notin dl_templates') =>
                     \A m \in LinkedMemes :
                         /\ dl_memes'[m].exists = dl_memes[m].exists
                         /\ dl_memes'[m].text_overlays
                                = dl_memes[m].text_overlays
                         /\ dl_memes'[m].template =
                                IF dl_memes[m].template = self
                                THEN NoTemplate
                                ELSE dl_memes[m].template
         ]_<<linkVars, deleteVars>>

\* a template with a link and a meme made from it has been deleted while
\* another instance keeps its link
C22_Witness ==
    /\ dl_call.op = "MemeTemplate.delete"
    /\ \E link \in dl_call.links : link.owner = dl_call.self
    /\ \E m \in LinkedMemes :
           /\ dl_call.memes[m].template = dl_call.self
           /\ dl_call.memes[m].text_overlays # "[]"
           /\ dl_memes[m].exists
    /\ lk_links # {}

\* ------------------------------------------------------------------------
\* LINKED_OBJECT_RESOLVER: resolve_linked_object, template_upload,
\* template_list, meme_list
\* ------------------------------------------------------------------------

\* resolve_linked_object returns None
NoObject == <<"", 0>>

\* MEME_MAKER['LINKED_OBJECT_RESOLVER']: not set, or a callable with the
\* value it returns for the request
Resolvers ==
    {[set |-> FALSE, yields |-> NoObject]}
        \cup [set : {TRUE}, yields : LinkTargets \cup {NoObject}]

\* resolve_linked_object(request)
resolve_linked_object(resolver) ==
    IF ~resolver.set THEN NoObject ELSE resolver.yields

NoView ==
    [view |-> "", linked_obj |-> NoObject, saved |-> "", shown |-> {},
     linked |-> {}]

ScopeIdle ==
    /\ sc_flagged = {}
    /\ sc_view = NoView

\* the memes are stored, no template is; an instance can be flagged
ScopeInit ==
    /\ sc_flagged \in SUBSET {"template:1", "meme:2"}
    /\ sc_view = NoView
    /\ dl_templates = {}
    /\ dl_memes = [m \in LinkedMemes |->
                      [exists |-> TRUE, template |-> NoTemplate,
                       text_overlays |-> "[]"]]
    /\ dl_call = NoDelete

\* the instances with a link row for the object
HavingLink(links, obj) ==
    {link.owner : link \in {l \in links : /\ l.content_type = obj[1]
                                           /\ l.object_id = obj[2]}}

\* the upload view with a valid form: form.save(), template.link_to
TemplateUploadValid(resolver) ==
    \E template \in LinkedTemplates \ dl_templates :
        LET linked_obj == resolve_linked_object(resolver)
        IN /\ dl_templates' = dl_templates \cup {template}
           /\ IF linked_obj # NoObject
              THEN LinkTo(template, linked_obj, NoCall.extra_fields)
              ELSE UNCHANGED linkVars
           /\ sc_view' = [NoView EXCEPT !.view = "template_upload",
                                        !.linked_obj = linked_obj,
                                        !.saved = template,
                                        !.linked =
                                            HavingLink(lk_links', linked_obj)]
           /\ UNCHANGED <<notLinkDeleteScope, dl_memes, dl_call, sc_flagged>>

\* the upload view with an invalid form
TemplateUploadInvalid ==
    /\ sc_view' = [NoView EXCEPT !.view = "template_upload"]
    /\ UNCHANGED <<notLinkDeleteScope, linkVars, deleteVars, sc_flagged>>

\* template_upload(request)
template_upload(resolver, valid) ==
    IF valid THEN TemplateUploadValid(resolver) ELSE TemplateUploadInvalid

\* the templates of template_list without the filter on the linked object
template_list_unscoped(linked_obj, matching) ==
    {t \in dl_templates : t \in matching /\ t \notin sc_flagged}

\* the templates of template_list: the search, flagged=False, linked_to
template_list(linked_obj, matching) ==
    {t \in dl_templates :
        /\ t \in matching
        /\ t \notin sc_flagged
        /\ linked_obj # NoObject => t \in linked_to("MemeTemplate", linked_obj)}

\* the memes of meme_list: linked_to or all(), flagged=False
meme_list(linked_obj) ==
    {m \in IF linked_obj # NoObject THEN linked_to("Meme", linked_obj)
           ELSE {s \in LinkedMemes : dl_memes[s].exists} :
        m \notin sc_flagged}

\* a list view answers
ListView(view, linked_obj, shown) ==
    /\ sc_view' = [NoView EXCEPT !.view = view, !.linked_obj = linked_obj,
                                 !.shown = shown,
                                 !.linked = HavingLink(lk_links, linked_obj)]
    /\ UNCHANGED <<notLinkDeleteScope, linkVars, deleteVars, sc_flagged>>

ScopeNext ==
    \/ \E resolver \in Resolvers, valid \in BOOLEAN :
           template_upload(resolver, valid)
    \/ \E resolver \in Resolvers, matching \in SUBSET LinkedTemplates :
           ListView("template_list", resolve_linked_object(resolver),
                    template_list(resolve_linked_object(resolver), matching))
    \/ \E resolver \in Resolvers :
           ListView("meme_list", resolve_linked_object(resolver),
                    meme_list(resolve_linked_object(resolver)))
    \/ \E self \in Linkers, obj \in LinkTargets :
           Stored(self) /\ link_to(self, obj, NoCall.extra_fields)

\* C23: when the resolver yields an object L for a request, a template
\* uploaded through the upload view is linked to L, and the template list and
\* the meme list contain only templates and memes that are linked to L.
C23_ResolverScopes ==
    sc_view.linked_obj # NoObject =>
        /\ (sc_view.view = "template_upload" /\ sc_view.saved # "") =>
               sc_view.saved \in sc_view.linked
        /\ sc_view.view \in {"template_list", "meme_list"} =>
               sc_view.shown \subseteq sc_view.linked

\* the template list of a request scoped to an object shows the uploaded
\* template while a meme is linked to another object
C23_Witness ==
    /\ sc_view.view = "template_list"
    /\ sc_view.linked_obj # NoObject
    /\ sc_view.shown = {"template:1"}
    /\ \E link \in lk_links :
           /\ link.owner \in LinkedMemes
           /\ <<link.content_type, link.object_id>> # sc_view.linked_obj

\* the largest rating_sum at which a further request is taken: a stale
\* update_rating can raise the sum without limit
MaxSum == 5

\* the object and the bodies of the requests that run at the same time
RaceItems == {"template:1"}
RaceBodies == {"{\"stars\": 1}", "{\"stars\": 4.7}"}

\* requests handled at the same time: the steps of one request interleave
\* with the steps of the other
RaceNext ==
    \/ \E p \in RateProcs, item \in RaceItems, session \in Sessions,
          body \in RaceBodies :
           /\ rt_items[item].rating_sum <= MaxSum
           /\ RateRequestFrom(p, item, session, body, <<>>)
    \/ \E p \in RateProcs : RateLookup(p)
    \/ \E p \in RateProcs : RateSaveExisting(p)
    \/ \E p \in RateProcs : RateCreate(p)
    \/ \E p \in RateProcs : RateAggregate(p)
    \/ \E p \in RateProcs : RateReturn(p)

\* the sum of the stars of a set of rating rows
RECURSIVE SumStars(_)
SumStars(ratings) ==
    IF ratings = {} THEN 0
    ELSE LET row == CHOOSE r \in ratings : TRUE
         IN row.stars + SumStars(ratings \ {row})

\* C24: under any sequence and any interleaving of rate requests, once the
\* requests have been answered the rating_count of every template and meme
\* is the number of rating rows stored for it and its rating_sum is the sum
\* of their stars.
C24_AggregatesMatchRows ==
    RateQuiet =>
        \A item \in Items :
            LET ratings == {row \in rt_rows : row.item = item}
            IN /\ rt_items[item].rating_count = Cardinality(ratings)
               /\ rt_items[item].rating_sum = SumStars(ratings)

\* ------------------------------------------------------------------------
\* Two saves of one meme; Meme.delete
\* ------------------------------------------------------------------------

\* the instance a request loaded from the stored meme and then edited
Edited(k, ov) ==
    [NoInstance EXCEPT !.has = TRUE, !.pk = k, !.template = TRUE,
                       !.text_overlays = ov]

\* a meme is stored without a generated image, and the two requests hold an
\* instance of it each, with different overlay data
SavesInit ==
    /\ tpl_image \in {"img1", "img2"}
    /\ \E ov \in OverlayData :
           rows = [k \in Pks |->
                      IF k = 1
                      THEN [NoRow EXCEPT !.exists = TRUE, !.template = TRUE,
                                         !.text_overlays = ov]
                      ELSE NoRow]
    /\ storage = {}
    /\ next_path = 1
    /\ \E a \in OverlayData \ {"empty"}, b \in OverlayData \ {"empty"} :
           /\ a # b
           /\ inst = [p \in Procs |-> IF p = "r1" THEN Edited(1, a)
                                      ELSE Edited(1, b)]
    /\ pc = [p \in Procs |-> "idle"]
    /\ fx = [p \in Procs |-> NoEffects]

\* the steps of the two saves, in any order
SavesNext ==
    \/ \E p \in Procs : SaveRow(p, FALSE)
    \/ \E p \in Procs : generate_image(p, FALSE)
    \/ \E p \in Procs : StoreFile(p)
    \/ \E p \in Procs : UpdateField(p)

\* both saves have completed: no save is running and the overlay data of
\* each request has been rendered and stored
BothSaved ==
    /\ \A p \in Procs : Idle(p)
    /\ \A p \in Procs :
           \E f \in storage : f.content.ov = inst[p].text_overlays

\* C25: when two saves of the same meme carrying different overlay data
\* interleave, after both have completed the persisted generated_image is
\* the image rendered from the persisted text_overlays.
C25_LastWriteWins ==
    BothSaved =>
        \A k \in Pks :
            rows[k].exists =>
                /\ rows[k].generated_image # NoFile
                /\ FileContent(rows[k].generated_image)
                       = Rendering(rows[k].text_overlays, tpl_image)

NoRemoval == [pk |-> NoPk, path |-> NoFile, failed |-> FALSE]

RemoveIdle == rm_last = NoRemoval

\* Meme.delete(): the path comes from the instance, super().delete() removes
\* the row, default_storage.delete may raise and the exception is passed
MemeDelete(p, fails) ==
    /\ Idle(p)
    /\ inst[p].has
    /\ inst[p].pk # NoPk
    /\ LET k == inst[p].pk
           generated_path == inst[p].generated_image
       IN /\ fails => generated_path # NoFile
          /\ rows' = [rows EXCEPT ![k] = NoRow]
          /\ storage' = IF generated_path # NoFile /\ ~fails
                        THEN {f \in storage : f.path # generated_path}
                        ELSE storage
          /\ inst' = [inst EXCEPT ![p].pk = NoPk]
          /\ rm_last' = [pk |-> k, path |-> generated_path, failed |-> fails]
    /\ UNCHANGED <<notLifeRemove, tpl_image, next_path, pc, fx>>

\* one request after the other: memes are made, loaded, edited, saved and
\* deleted
RemoveNext ==
    \/ \E ov \in OverlayData : NewMeme("r1", ov)
    \/ \E k \in Pks : GetMeme("r1", k)
    \/ \E ov \in OverlayData : set_overlays("r1", ov)
    \/ SaveRow("r1", FALSE)
    \/ \E fault \in BOOLEAN : generate_image("r1", fault)
    \/ StoreFile("r1")
    \/ UpdateField("r1")
    \/ \E fails \in BOOLEAN : MemeDelete("r1", fails)

\* C26: after saves followed by delete no generated image file written for
\* the meme remains in storage, and a failure of the storage delete does not
\* undo the deletion of the row.
C26_DeleteRemovesFiles ==
    /\ []((/\ \A p \in Procs : Idle(p)
           /\ rm_last.pk # NoPk
           /\ ~rm_last.failed
           /\ ~rows[rm_last.pk].exists)
              => \A f \in storage : f.meme # rm_last.pk)
    /\ [][(rm_last' # rm_last /\ rm_last'.failed)
              => ~rows'[rm_last'.pk].exists]_<<lifeVars, removeVars>>

vars == <<lifeVars, wrapVars, renderVars, editVars, fontVars, markVars,
          rateVars, linkVars, deleteVars, scopeVars, removeVars>>

Init == LifeInit /\ WrapIdle /\ RenderIdle /\ EditIdle /\ FontIdle /\ MarkIdle
    /\ RateIdle /\ LinkIdle /\ DeleteIdle
    /\ ScopeIdle /\ RemoveIdle

Next == LifeNext

Spec == Init /\ [][Next]_vars

InitWrap == WrapInit /\ LifeInit /\ RenderIdle /\ EditIdle /\ FontIdle /\ MarkIdle
    /\ RateIdle /\ LinkIdle /\ DeleteIdle
    /\ ScopeIdle /\ RemoveIdle
SpecWrap == InitWrap /\ [][WrapNext]_vars

InitRender == RenderInit /\ LifeInit /\ WrapIdle /\ EditIdle /\ FontIdle /\ MarkIdle
    /\ RateIdle /\ LinkIdle /\ DeleteIdle
    /\ ScopeIdle /\ RemoveIdle
SpecRender == InitRender /\ [][RenderNext]_vars

InitEdit == EditInit /\ LifeInit /\ WrapIdle /\ RenderIdle /\ FontIdle /\ MarkIdle
    /\ RateIdle /\ LinkIdle /\ DeleteIdle
    /\ ScopeIdle /\ RemoveIdle
SpecEdit == InitEdit /\ [][EditNext]_vars

InitFont == FontInit /\ LifeInit /\ WrapIdle /\ RenderIdle /\ EditIdle /\ MarkIdle
    /\ RateIdle /\ LinkIdle /\ DeleteIdle
    /\ ScopeIdle /\ RemoveIdle
SpecFont == InitFont /\ [][FontNext]_vars

InitMark == MarkInit /\ LifeInit /\ WrapIdle /\ RenderIdle /\ EditIdle /\ FontIdle
    /\ RateIdle /\ LinkIdle /\ DeleteIdle
    /\ ScopeIdle /\ RemoveIdle
SpecMark == InitMark /\ [][MarkNext]_vars

InitRate ==
    RateIdle /\ LifeInit /\ WrapIdle /\ RenderIdle /\ EditIdle /\ FontIdle
    /\ MarkIdle /\ LinkIdle /\ DeleteIdle
    /\ ScopeIdle /\ RemoveIdle
SpecRate == InitRate /\ [][RateNext]_vars
InitLink ==
    LinkIdle /\ LifeInit /\ WrapIdle /\ RenderIdle /\ EditIdle /\ FontIdle
    /\ MarkIdle /\ RateIdle /\ DeleteIdle
    /\ ScopeIdle /\ RemoveIdle
SpecLink == InitLink /\ [][LinkNext]_vars
InitDelete ==
    DeleteInit /\ LinkIdle /\ LifeInit /\ WrapIdle /\ RenderIdle /\ EditIdle
    /\ FontIdle /\ MarkIdle /\ RateIdle /\ ScopeIdle /\ RemoveIdle
SpecDelete == InitDelete /\ [][DeleteNext]_vars
InitScope ==
    ScopeInit /\ LinkIdle /\ LifeInit /\ WrapIdle /\ RenderIdle /\ EditIdle
    /\ FontIdle /\ MarkIdle /\ RateIdle /\ RemoveIdle
SpecScope == InitScope /\ [][ScopeNext]_vars
InitRace ==
    RateIdle /\ LifeInit /\ WrapIdle /\ RenderIdle /\ EditIdle /\ FontIdle
    /\ MarkIdle /\ LinkIdle /\ DeleteIdle /\ ScopeIdle /\ RemoveIdle
SpecRace == InitRace /\ [][RaceNext]_vars
InitSaves ==
    SavesInit /\ WrapIdle /\ RenderIdle /\ EditIdle /\ FontIdle /\ MarkIdle
    /\ RateIdle /\ LinkIdle /\ DeleteIdle /\ ScopeIdle /\ RemoveIdle
SpecSaves == InitSaves /\ [][SavesNext]_vars

InitRemove ==
    LifeInit /\ RemoveIdle /\ WrapIdle /\ RenderIdle /\ EditIdle /\ FontIdle
    /\ MarkIdle /\ RateIdle /\ LinkIdle /\ DeleteIdle /\ ScopeIdle
SpecRemove == InitRemove /\ [][RemoveNext]_vars

====
